---- MODULE Spec2Model ----
(***************************************************************************)
(* Offline-first notes sync engine (src/src/notes/sync/index.ts) over the  *)
(* Dexie local store (src/src/notes/db/index.ts) and the Supabase remote   *)
(* adapter (src/src/notes/services/utilities.ts, supabase-client part).    *)
(*                                                                         *)
(* JavaScript runs a callback to completion: an action of this module is  *)
(* the code between two suspension points (an awaited storage or network   *)
(* call).  A process's pc names the awaited call that is pending; the      *)
(* action for that pc performs the call and then runs the continuation up  *)
(* to the next awaited call.                                               *)
(***************************************************************************)
EXTENDS Integers, Sequences, FiniteSets, TLC

\* ------------------------------------------------------------------ bounds

NoteIds == {"n1", "n2"}
FolderIds == {"f1"}
AttachmentIds == {"a1", "a2"}
\* Opaque ciphertext payloads (title/content/blob/name): the engine never
\* looks inside them.
Bodies == {"x", "y"}
\* Wall-clock values (ISO timestamps, compared as strings by the code, are
\* totally ordered like these integers); 0 stands for undefined / null.
MaxTime == 2
\* How many local mutations and how many writes by other clients a behaviour
\* contains.
MaxEdits == 2
MaxRemoteEdits == 2
\* Slots for concurrently running sync processes.
Slots == {1, 2}
Times == 1..MaxTime

\* ------------------------------------------------------------------- state

\* the functions subscribed as status listeners
Listeners == {"l1", "l2"}
\* the listeners that call fullSync() when they are told that a pass runs
Reentrant == {"l2"}

VARIABLES
    client,        \* typeof window !== 'undefined'
    onLine,        \* navigator.onLine
    evt,           \* an online/offline event is queued for watchOnlineStatus
    now,           \* wall clock (new Date())
    isSyncing,     \* module flag, sync/index.ts:329
    currentStatus, \* sync/index.ts:37
    syncInFlight,  \* sync/index.ts:328: 0 = a settled promise, k = pending completion of process k
    proc,          \* the running syncOut / syncIn / fullSync bodies
    notes, folders, attachments,        \* Dexie tables
    rNotes, rFolders, rAttachments, rLog, \* Supabase tables
    unsynced,      \* history: ids whose local row carries a mutation no confirmed upload contained
    cleanEpoch,    \* history: a syncOut completed without error and no local mutation happened since it began
    edits, redits, \* history: mutations so far
    statusListeners, \* sync/index.ts:44: the subscribed listeners
    ev             \* history: what the last step called / settled

\* the encryption service, services/utilities.ts
VARIABLES
    keyStorage,    \* window.localStorage['notes_aes_key_v1'], shared by the tabs; 0 = no item
    tab,           \* per tab (process): keyPromise and the position of its key lookup
    calls          \* the encryptText / decryptText / encryptBlob / decryptBlob calls made so far

cryptoVars == <<keyStorage, tab, calls>>

vars == <<client, onLine, evt, now, isSyncing, currentStatus, syncInFlight, proc,
          notes, folders, attachments, rNotes, rFolders, rAttachments, rLog,
          unsynced, cleanEpoch, edits, redits, statusListeners, ev, cryptoVars>>

\* what the engine's own steps leave alone
envVars == <<client, onLine, evt, now, statusListeners, cryptoVars>>
localVars == <<notes, folders, attachments>>
remoteVars == <<rNotes, rFolders, rAttachments, rLog>>

\* ------------------------------------------------------------ table helpers

EmptyTable == [x \in {} |-> 0]

\* Table.put(row) / upsert of one row
Put(t, id, row) == [x \in DOMAIN t \cup {id} |-> IF x = id THEN row ELSE t[x]]

\* Table.delete(id)
Delete(t, id) == [x \in DOMAIN t \ {id} |-> t[x]]

Max(S) == IF S = {} THEN 0 ELSE CHOOSE m \in S : \A x \in S : x <= m

RECURSIVE SetToSeq(_)
SetToSeq(S) == IF S = {} THEN <<>>
               ELSE LET x == CHOOSE y \in S : TRUE
                    IN <<x>> \o SetToSeq(S \ {x})

\* ------------------------------------------------------------------ status

NoError == "null"
OfflineMessage == "Sync attempted while offline."
RemoteMessage == "remote error"
UnknownMessage == "Unknown sync error"

IsClient == client
IsOnline == client /\ onLine

\* updateStatus: the whole status object is replaced by the patched copy
UpdateStatus(st, patch) ==
    [f \in DOMAIN st |-> IF f \in DOMAIN patch THEN patch[f] ELSE st[f]]

\* The status as one step sees it: value is currentStatus, listeners the set
\* statusListeners, notified the values updateStatus has produced in this
\* step, delivered the values each listener has been called with in this step.
StatusBus(status, listeners) ==
    [value |-> status, listeners |-> listeners,
     notified |-> <<>>, delivered |-> [l \in Listeners |-> <<>>]]

\* notifyStatusListeners: every listener of the set is called with the status
Notify(b) ==
    [b EXCEPT !.delivered = [l \in Listeners |->
                                IF l \in b.listeners THEN Append(@[l], b.value) ELSE @[l]]]

PublishSilently(b, patch) ==
    [b EXCEPT !.value = UpdateStatus(@, patch),
              !.notified = Append(@, UpdateStatus(b.value, patch))]

\* updateStatus: replace currentStatus, then notify the listeners
Publish(b, patch) ==
    Notify([b EXCEPT !.value = UpdateStatus(@, patch),
                     !.notified = Append(@, UpdateStatus(b.value, patch))])

\* updateStatus(patch) called by the step that works on w
SetStatus(w, patch) == [w EXCEPT !.st = Publish(@, patch)]

\* the catch block of fullSync: the message recorded for a thrown value
CaughtMessage(e) == IF e.isError THEN e.message ELSE UnknownMessage

OfflineError == [isError |-> TRUE, message |-> OfflineMessage]
RemoteErrors == {[isError |-> TRUE, message |-> RemoteMessage],
                 [isError |-> FALSE, message |-> RemoteMessage]}

\* useSync's deriveState: the externally observable state
DeriveState(status) ==
    IF status.isSyncing THEN "syncing"
    ELSE IF status.offline THEN "offline"
    ELSE IF status.lastError # NoError THEN "error"
    ELSE "idle"

\* ---------------------------------------------------------------- processes

NoThrow == [isError |-> FALSE, message |-> "none"]

\* The locals of one running syncOut / syncIn / fullSync body.  payload,
\* noteData, folderData, byNote and attachmentData are the arrays the code
\* holds; uploaded, cov, quiet, calm, outOk, notes0 and both are history.
IdleProc == [kind |-> "none", pc |-> "idle",
             payload |-> <<>>, uploaded |-> {}, cov |-> {},
             entries |-> <<>>,
             latestLocal |-> 0, latestAttachment |-> 0,
             noteData |-> <<>>, folderData |-> <<>>,
             byNote |-> <<>>, byNoteError |-> NoThrow,
             attachmentData |-> <<>>,
             quiet |-> FALSE, calm |-> FALSE, outOk |-> FALSE,
             notes0 |-> EmptyTable, both |-> {}, joined |-> FALSE]

OutPhase == {"outNotesRead", "outNotesUpload", "outNotesClean",
             "outFoldersRead", "outFoldersUpload", "outFoldersClean",
             "outAttsRead", "outAttsUpload", "outAttsClean", "outLog"}
InPhase == {"inLatestNote", "inLatestAtt", "inDownload", "inUpsertNotes",
            "inUpsertFolders", "inAttByNote", "inAttByCreated",
            "inUpsertAtts", "inLog"}

Active == {k \in Slots : proc[k].pc # "idle"}
ActiveFull == {k \in Active : proc[k].kind = "full"}
FreeSlots == Slots \ Active

\* What one step did: trigger is what started it, call what fullSync() did,
\* subscribed / unsubscribed the listener that was added or removed,
\* reported what the remote call that answered in this step reported,
\* heard what the watchOnlineStatus listener was called with, notified the
\* status values updateStatus produced in order, delivered the values each
\* status listener was called with in order.
NoEv == [call |-> "none", promise |-> 0, end |-> "none", kind |-> "none",
         error |-> NoError, raw |-> NoError, calm |-> FALSE, notes0 |-> EmptyTable,
         trigger |-> "none", heard |-> "none",
         subscribed |-> "none", unsubscribed |-> "none", reported |-> NoError,
         notified |-> <<>>, delivered |-> [l \in Listeners |-> <<>>],
         nested |-> -1, joined |-> FALSE, noteReported |-> NoError]

\* The part of the state a step of process k works on.
World(k) == [p |-> proc[k], st |-> StatusBus(currentStatus, statusListeners),
             syncing |-> isSyncing, flight |-> syncInFlight,
             notes |-> notes, folders |-> folders, attachments |-> attachments,
             rNotes |-> rNotes, rFolders |-> rFolders,
             rAttachments |-> rAttachments, rLog |-> rLog,
             unsynced |-> unsynced, cleanEpoch |-> cleanEpoch, ev |-> NoEv]

Apply(k, w) ==
    /\ proc' = [proc EXCEPT ![k] = w.p]
    /\ currentStatus' = w.st.value
    /\ isSyncing' = w.syncing
    /\ syncInFlight' = w.flight
    /\ notes' = w.notes
    /\ folders' = w.folders
    /\ attachments' = w.attachments
    /\ rNotes' = w.rNotes
    /\ rFolders' = w.rFolders
    /\ rAttachments' = w.rAttachments
    /\ rLog' = w.rLog
    /\ unsynced' = w.unsynced
    /\ cleanEpoch' = w.cleanEpoch
    /\ ev' = [w.ev EXCEPT !.notified = w.st.notified, !.delivered = w.st.delivered]

\* ------------------------------------------------ completion of a process

\* The promise of process k settles; the slot is free again.
Settled(k, w, result, err) ==
    [w EXCEPT !.p = IdleProc,
              !.flight = IF w.flight = k THEN 0 ELSE w.flight,
              !.ev = [w.ev EXCEPT !.end = result, !.kind = w.p.kind, !.error = err,
                                  !.joined = w.p.joined,
                                  !.calm = w.p.calm, !.notes0 = w.p.notes0]]

FullSyncCatchNothing(w, e) == w

FullSyncCatchStamped(w, e) ==
    SetStatus(w, [lastError |-> CaughtMessage(e), lastRun |-> now])

\* fullSync, catch block
FullSyncCatch(w, e) ==
    SetStatus(w, [lastError |-> CaughtMessage(e)])

FullSyncNoFinally(w) == w

\* fullSync, finally block
FullSyncFinally(w) ==
    SetStatus([w EXCEPT !.syncing = FALSE], [isSyncing |-> FALSE])

ThrowUncaught(k, w, e) ==
    LET w1 == [w EXCEPT !.ev.raw = e.message]
    IN IF w.p.kind = "full"
       THEN Settled(k, FullSyncFinally(w1), "rejected", e.message)
       ELSE Settled(k, w1, "rejected", e.message)

\* A value is thrown inside process k: fullSync catches it, a direct
\* syncOut / syncIn call rejects with it.
\* ev.raw is the message of the thrown value, ev.error what the caller or the
\* catch block makes of it.
Throw(k, w, e) ==
    LET w1 == [w EXCEPT !.ev.raw = e.message]
    IN IF w.p.kind = "full"
       THEN Settled(k, FullSyncFinally(FullSyncCatch(w1, e)), "resolved", CaughtMessage(e))
       ELSE Settled(k, w1, "rejected", e.message)

\* The body of process k returns normally.
Return(k, w) ==
    IF w.p.kind = "full"
    THEN Settled(k, FullSyncFinally(SetStatus(w, [lastRun |-> now])),
                 "resolved", NoError)
    ELSE Settled(k, w, "resolved", NoError)

EnsureOnlineSilent(w) == w

\* ensureOnlineOrThrow: the status patched when the connection is absent
EnsureOnlineFailed(w) ==
    SetStatus(w, [offline |-> TRUE, lastError |-> OfflineMessage])

EnsureOnlineSkipped(k, w) ==
    [w EXCEPT !.p.pc = "inLatestNote", !.p.calm = TRUE,
              !.p.notes0 = w.notes]

\* syncIn up to its first awaited call
BeginSyncIn(k, w) ==
    IF ~IsOnline
    THEN Throw(k, EnsureOnlineFailed(w), OfflineError)
    ELSE [w EXCEPT !.p.pc = "inLatestNote", !.p.calm = TRUE,
                   !.p.notes0 = w.notes]

\* syncOut up to its first awaited call
BeginSyncOut(k, w) ==
    IF ~IsOnline
    THEN Throw(k, EnsureOnlineFailed(w), OfflineError)
    ELSE [w EXCEPT !.p.pc = "outNotesRead", !.p.quiet = TRUE]

FullSyncInFirst(k, w) == BeginSyncIn(k, w)

\* fullSync, try block: what runs first
FullSyncTry(k, w) == BeginSyncOut(k, w)

\* syncOut has returned: fullSync goes on with syncIn, a direct call is done
AfterSyncOut(k, w) ==
    LET w1 == [w EXCEPT !.cleanEpoch = w.cleanEpoch \/ w.p.quiet,
                        !.p.outOk = TRUE, !.p.quiet = FALSE, !.p.entries = <<>>]
    IN IF w.p.kind = "full" THEN BeginSyncIn(k, w1) ELSE Return(k, w1)

\* ------------------------------------------------------------ rows, arrays

\* Table.toArray(): the rows of a table as an array
ToArray(t) == LET ids == SetToSeq(DOMAIN t) IN [i \in DOMAIN ids |-> t[ids[i]]]

Ids(rows) == {rows[i].id : i \in DOMAIN rows}

\* the last row of the array with that id (Map.set / upsert keep the last)
LastWithId(rows, id) ==
    rows[CHOOSE i \in DOMAIN rows :
            /\ rows[i].id = id
            /\ \A j \in DOMAIN rows : rows[j].id = id => j <= i]

GetDirtyRecords(t) == SelectSeq(ToArray(t), LAMBDA r : r.dirty)

MarkAllClean(t, ids) == [id \in DOMAIN t |-> [t[id] EXCEPT !.dirty = FALSE]]

MarkNothingClean(t, ids) == t

\* markRecordsClean: table.update(id, {dirty: false}) for each id; an id
\* that is no longer in the table is left alone
MarkRecordsClean(t, ids) ==
    [id \in DOMAIN t |-> IF id \in ids THEN [t[id] EXCEPT !.dirty = FALSE] ELSE t[id]]

MapLocalNoteToRemote(note) ==
    [id |-> note.id, body |-> note.body, updated_at |-> note.updatedAt]

MapLocalFolderToRemote(folder) ==
    [id |-> folder.id, body |-> folder.body, created_at |-> folder.createdAt]

MapLocalAttachmentToRemote(attachment) ==
    [id |-> attachment.id, note_id |-> attachment.noteId,
     body |-> attachment.body, created_at |-> attachment.createdAt]

\* the row's id `${type}-${itemId}`; last_synced_at is left out of the model
LogEntryForItem(type, itemId) == [item_type |-> type, item_id |-> itemId]

LogEntries(type, ids) == [i \in DOMAIN ids |-> LogEntryForItem(type, ids[i])]

IdSeq(rows) == [i \in DOMAIN rows |-> rows[i].id]

SeqRange(s) == {s[i] : i \in DOMAIN s}

\* ------------------------------------------------------------ remote adapter

\* client.from(t).upsert(rows, {onConflict: 'id'})
Upsert(rt, rows) ==
    [id \in DOMAIN rt \cup Ids(rows) |->
        IF id \in Ids(rows) THEN LastWithId(rows, id) ELSE rt[id]]

\* upsertSyncLogEntries: one row per `${type}-${itemId}`
UpsertSyncLogEntries(log, entries) == log \cup SeqRange(entries)

\* ------------------------------------------------------------------ syncOut

\* getDirtyRecords has answered: skip the table, or map the rows and upload
OutRead(w, dirty, payload, uploadPc, skip) ==
    IF Len(dirty) = 0 THEN skip
    ELSE [w EXCEPT !.p.payload = payload,
                   !.p.cov = Ids(dirty) \cap w.unsynced,
                   !.p.pc = uploadPc]

\* the upload was confirmed: markRecordsClean is issued
OutUploaded(w, cleanPc) ==
    [w EXCEPT !.p.uploaded = Ids(w.p.payload),
              !.unsynced = w.unsynced \ w.p.cov,
              !.p.pc = cleanPc]

\* markRecordsClean has answered: the log entries of the table
OutCleaned(w, type) ==
    [w EXCEPT !.p.entries = w.p.entries \o LogEntries(type, IdSeq(w.p.payload)),
              !.p.payload = <<>>, !.p.uploaded = {}, !.p.cov = {}]

\* syncOut after its three tables: the log is upserted if there are entries
SyncOutEntries(k, w) ==
    IF Len(w.p.entries) > 0 THEN [w EXCEPT !.p.pc = "outLog"]
    ELSE AfterSyncOut(k, w)

SyncOutNotesRead(k, w) ==
    LET dirtyNotes == GetDirtyRecords(w.notes)
    IN OutRead(w, dirtyNotes,
               [i \in DOMAIN dirtyNotes |-> MapLocalNoteToRemote(dirtyNotes[i])],
               "outNotesUpload", [w EXCEPT !.p.pc = "outFoldersRead"])

SyncOutNotesUploadMasked(k, w, res) ==
    IF res = NoThrow
    THEN OutUploaded([w EXCEPT !.rNotes = Upsert(w.rNotes, w.p.payload)], "outNotesClean")
    ELSE [w EXCEPT !.p.pc = "outFoldersRead"]

SyncOutNotesUpload(k, w, res) ==
    IF res = NoThrow
    THEN OutUploaded([w EXCEPT !.rNotes = Upsert(w.rNotes, w.p.payload)], "outNotesClean")
    ELSE Throw(k, w, res)

SyncOutNotesClean(k, w) ==
    LET w1 == [w EXCEPT !.notes = MarkRecordsClean(w.notes, Ids(w.p.payload))]
    IN [OutCleaned(w1, "note") EXCEPT !.p.pc = "outFoldersRead"]

SyncOutFoldersRead(k, w) ==
    LET dirtyFolders == GetDirtyRecords(w.folders)
    IN OutRead(w, dirtyFolders,
               [i \in DOMAIN dirtyFolders |-> MapLocalFolderToRemote(dirtyFolders[i])],
               "outFoldersUpload", [w EXCEPT !.p.pc = "outAttsRead"])

SyncOutFoldersUpload(k, w, res) ==
    IF res = NoThrow
    THEN OutUploaded([w EXCEPT !.rFolders = Upsert(w.rFolders, w.p.payload)], "outFoldersClean")
    ELSE Throw(k, w, res)

SyncOutFoldersClean(k, w) ==
    LET w1 == [w EXCEPT !.folders = MarkRecordsClean(w.folders, Ids(w.p.payload))]
    IN [OutCleaned(w1, "folder") EXCEPT !.p.pc = "outAttsRead"]

SyncOutAttachmentsRead(k, w) ==
    LET dirtyAttachments == GetDirtyRecords(w.attachments)
    IN OutRead(w, dirtyAttachments,
               [i \in DOMAIN dirtyAttachments |->
                    MapLocalAttachmentToRemote(dirtyAttachments[i])],
               "outAttsUpload", SyncOutEntries(k, w))

SyncOutAttachmentsUpload(k, w, res) ==
    IF res = NoThrow
    THEN OutUploaded([w EXCEPT !.rAttachments = Upsert(w.rAttachments, w.p.payload)],
                     "outAttsClean")
    ELSE Throw(k, w, res)

SyncOutAttachmentsClean(k, w) ==
    LET w1 == [w EXCEPT !.attachments = MarkRecordsClean(w.attachments, Ids(w.p.payload))]
    IN SyncOutEntries(k, OutCleaned(w1, "attachment"))

\* upsertSyncLogEntries has answered; its {error} is not looked at
SyncOutLog(k, w, ok) ==
    AfterSyncOut(k, [w EXCEPT !.rLog = IF ok THEN UpsertSyncLogEntries(w.rLog, w.p.entries)
                                        ELSE w.rLog])

\* ------------------------------------------------------------------- syncIn

\* orderBy(index).last() of a table: the greatest value, undefined (0) if empty
GetLatestLocalNoteUpdatedAt(t) == Max({t[id].updatedAt : id \in DOMAIN t})

GetLatestLocalAttachmentCreatedAt(t) == Max({t[id].createdAt : id \in DOMAIN t})

Rows(rt) == {rt[id] : id \in DOMAIN rt}

\* order('updated_at', {ascending: false})
RECURSIVE OrderByUpdatedAtDesc(_)
OrderByUpdatedAtDesc(S) ==
    IF S = {} THEN <<>>
    ELSE LET r == CHOOSE x \in S : \A y \in S : x.updated_at >= y.updated_at
         IN <<r>> \o OrderByUpdatedAtDesc(S \ {r})

\* order('created_at', {ascending: true})
RECURSIVE OrderByCreatedAtAsc(_)
OrderByCreatedAtAsc(S) ==
    IF S = {} THEN <<>>
    ELSE LET r == CHOOSE x \in S : \A y \in S : x.created_at <= y.created_at
         IN <<r>> \o OrderByCreatedAtAsc(S \ {r})

\* select * from notes [where updated_at > updatedAfter] order by updated_at desc
DownloadEncryptedNotes(rt, updatedAfter) ==
    OrderByUpdatedAtDesc({r \in Rows(rt) : updatedAfter = 0 \/ r.updated_at > updatedAfter})

\* select * from folders order by created_at asc
DownloadEncryptedFolders(rt) == OrderByCreatedAtAsc(Rows(rt))

\* select * from attachments [where note_id in noteIds] [where created_at > createdAfter]
DownloadEncryptedAttachments(rt, noteIds, createdAfter) ==
    ToArray([id \in {x \in DOMAIN rt :
                        /\ noteIds = {} \/ rt[x].note_id \in noteIds
                        /\ createdAfter = 0 \/ rt[x].created_at > createdAfter}
             |-> rt[id]])

RemoteIsNewerOrEqual(remoteTime, localTime) == remoteTime >= localTime

\* the comparison of the three merges: remote.updated_at > existing.updatedAt
RemoteIsNewer(remoteTime, localTime) == remoteTime > localTime

NoDedupe(rows) == rows

\* dedupeById: a Map keyed by id, in first-insertion order, last value kept
RECURSIVE DedupeFrom(_, _, _)
DedupeFrom(rows, i, seen) ==
    IF i > Len(rows) THEN <<>>
    ELSE IF rows[i].id \in seen THEN DedupeFrom(rows, i + 1, seen)
    ELSE <<LastWithId(rows, rows[i].id)>> \o DedupeFrom(rows, i + 1, seen \cup {rows[i].id})

DedupeById(rows) == DedupeFrom(rows, 1, {})

\* upsertLocalNotes: the loop of the transaction, from row i on
RECURSIVE UpsertLocalNotes(_, _, _)
UpsertLocalNotes(t, rows, i) ==
    IF i > Len(rows) THEN [t |-> t, updates |-> <<>>]
    ELSE LET remoteNote == rows[i]
             exists == remoteNote.id \in DOMAIN t
         IN IF ~exists \/ RemoteIsNewer(remoteNote.updated_at, t[remoteNote.id].updatedAt)
            THEN LET row == [id |-> remoteNote.id, body |-> remoteNote.body,
                             updatedAt |-> remoteNote.updated_at,
                             attachments |-> IF exists THEN t[remoteNote.id].attachments
                                             ELSE <<>>,
                             dirty |-> FALSE]
                     rest == UpsertLocalNotes(Put(t, remoteNote.id, row), rows, i + 1)
                 IN [rest EXCEPT !.updates = <<remoteNote.id>> \o rest.updates]
            ELSE UpsertLocalNotes(t, rows, i + 1)

\* upsertLocalFolders
RECURSIVE UpsertLocalFolders(_, _, _)
UpsertLocalFolders(t, rows, i) ==
    IF i > Len(rows) THEN [t |-> t, updates |-> <<>>]
    ELSE LET folder == rows[i]
             exists == folder.id \in DOMAIN t
         IN IF ~exists \/ RemoteIsNewer(folder.created_at, t[folder.id].createdAt)
            THEN LET row == [id |-> folder.id, body |-> folder.body,
                             createdAt |-> folder.created_at, dirty |-> FALSE]
                     rest == UpsertLocalFolders(Put(t, folder.id, row), rows, i + 1)
                 IN [rest EXCEPT !.updates = <<folder.id>> \o rest.updates]
            ELSE UpsertLocalFolders(t, rows, i + 1)

\* db.attachments.where('noteId').equals(noteId).toArray(), mapped to the ids
AttachmentIdsOfNote(t, noteId) == SetToSeq({id \in DOMAIN t : t[id].noteId = noteId})

KeepNoteAttachments(n, noteId, ids) == n

\* db.notes.update(noteId, {attachments}): nothing happens without the row
UpdateNoteAttachments(n, noteId, ids) ==
    IF noteId \in DOMAIN n THEN [n EXCEPT ![noteId].attachments = ids] ELSE n

\* upsertLocalAttachments: the loop of the transaction over both tables
RECURSIVE UpsertLocalAttachments(_, _, _, _)
UpsertLocalAttachments(t, n, rows, i) ==
    IF i > Len(rows) THEN [t |-> t, n |-> n, updates |-> <<>>]
    ELSE LET attachment == rows[i]
             exists == attachment.id \in DOMAIN t
         IN IF ~exists \/ RemoteIsNewer(attachment.created_at, t[attachment.id].createdAt)
            THEN LET row == [id |-> attachment.id, noteId |-> attachment.note_id,
                             body |-> attachment.body,
                             createdAt |-> attachment.created_at, dirty |-> FALSE]
                     t1 == Put(t, attachment.id, row)
                     n1 == UpdateNoteAttachments(n, attachment.note_id,
                                                 AttachmentIdsOfNote(t1, attachment.note_id))
                     rest == UpsertLocalAttachments(t1, n1, rows, i + 1)
                 IN [rest EXCEPT !.updates = <<attachment.id>> \o rest.updates]
            ELSE UpsertLocalAttachments(t, n, rows, i + 1)

\* syncIn after its merges: the log is upserted if there are entries
SyncInEntries(k, w) ==
    IF Len(w.p.entries) > 0 THEN [w EXCEPT !.p.pc = "inLog"] ELSE Return(k, w)

SyncInLogChecked(k, w, ok) ==
    IF ok THEN Return(k, [w EXCEPT !.rLog = UpsertSyncLogEntries(w.rLog, w.p.entries)])
    ELSE Throw(k, w, CHOOSE e \in RemoteErrors : e.isError)

\* upsertSyncLogEntries has answered; its {error} is not looked at
SyncInLog(k, w, ok) ==
    Return(k, [w EXCEPT !.rLog = IF ok THEN UpsertSyncLogEntries(w.rLog, w.p.entries)
                                  ELSE w.rLog])

\* the transaction of upsertLocalAttachments has committed
SyncInUpsertAttachments(k, w) ==
    LET r == UpsertLocalAttachments(w.attachments, w.notes, w.p.attachmentData, 1)
    IN SyncInEntries(k, [w EXCEPT !.attachments = r.t, !.notes = r.n,
                                   !.unsynced = w.unsynced \ SeqRange(r.updates),
                                   !.p.entries = w.p.entries \o LogEntries("attachment", r.updates),
                                   !.p.attachmentData = <<>>])

SyncInAttachmentsFetchedUnchecked(k, w, byCreated, byCreatedError) ==
    LET attachmentData == DedupeById(w.p.byNote \o byCreated)
        w1 == [w EXCEPT !.p.byNote = <<>>, !.p.noteData = <<>>,
                        !.p.both = Ids(w.p.byNote) \cap Ids(byCreated)]
    IN IF Len(attachmentData) > 0
       THEN [w1 EXCEPT !.p.attachmentData = attachmentData, !.p.pc = "inUpsertAtts"]
       ELSE SyncInEntries(k, w1)

\* both attachment fetches are in: their errors are thrown, the union is
\* deduplicated and merged
SyncInAttachmentsFetched(k, w, byCreated, byCreatedError) ==
    IF w.p.byNoteError # NoThrow THEN Throw(k, w, w.p.byNoteError)
    ELSE IF byCreatedError # NoThrow THEN Throw(k, w, byCreatedError)
    ELSE LET attachmentData == DedupeById(w.p.byNote \o byCreated)
                 w1 == [w EXCEPT !.p.byNote = <<>>, !.p.noteData = <<>>,
                             !.p.both = Ids(w.p.byNote) \cap Ids(byCreated)]
         IN IF Len(attachmentData) > 0
            THEN [w1 EXCEPT !.p.attachmentData = attachmentData, !.p.pc = "inUpsertAtts"]
            ELSE SyncInEntries(k, w1)

\* if (latestAttachment) byCreated = await downloadEncryptedAttachments({createdAfter})
SyncInByCreated(k, w) ==
    IF w.p.latestAttachment # 0 THEN [w EXCEPT !.p.pc = "inAttByCreated"]
    ELSE SyncInAttachmentsFetched(k, w, <<>>, NoThrow)

SyncInAttByCreated(k, w, err) ==
    SyncInAttachmentsFetched(k, w,
        IF err = NoThrow
        THEN DownloadEncryptedAttachments(w.rAttachments, {}, w.p.latestAttachment)
        ELSE <<>>,
        err)

\* if (noteIds.length) byNote = await downloadEncryptedAttachments({noteIds})
SyncInByNote(k, w) ==
    IF Len(w.p.noteData) > 0 THEN [w EXCEPT !.p.pc = "inAttByNote"]
    ELSE SyncInByCreated(k, w)

SyncInAttByNote(k, w, err) ==
    SyncInByCreated(k,
        [w EXCEPT !.p.byNote = IF err = NoThrow
                               THEN DownloadEncryptedAttachments(w.rAttachments,
                                                                 Ids(w.p.noteData), 0)
                               ELSE <<>>,
                  !.p.byNoteError = err])

\* upsertLocalFolders returns [] at once for an empty array
SyncInFolders(k, w) ==
    IF Len(w.p.folderData) > 0 THEN [w EXCEPT !.p.pc = "inUpsertFolders"]
    ELSE SyncInByNote(k, w)

SyncInUpsertFolders(k, w) ==
    LET r == UpsertLocalFolders(w.folders, w.p.folderData, 1)
    IN SyncInByNote(k, [w EXCEPT !.folders = r.t,
                                  !.unsynced = w.unsynced \ SeqRange(r.updates),
                                  !.p.entries = w.p.entries \o LogEntries("folder", r.updates),
                                  !.p.folderData = <<>>])

SyncInUpsertNotes(k, w) ==
    LET r == UpsertLocalNotes(w.notes, w.p.noteData, 1)
    IN SyncInFolders(k, [w EXCEPT !.notes = r.t,
                                   !.unsynced = w.unsynced \ SeqRange(r.updates),
                                   !.p.entries = w.p.entries \o LogEntries("note", r.updates)])

SyncInDownloadFoldersUnchecked(k, w, noteError, folderError) ==
    IF noteError # NoThrow THEN Throw(k, w, noteError)
    ELSE LET w1 == [w EXCEPT !.p.noteData = DownloadEncryptedNotes(w.rNotes, w.p.latestLocal),
                             !.p.folderData = <<>>]
         IN IF Len(w1.p.noteData) > 0 THEN [w1 EXCEPT !.p.pc = "inUpsertNotes"]
            ELSE SyncInFolders(k, w1)

\* Promise.all([downloadEncryptedNotes(latestLocal), downloadEncryptedFolders()])
\* has answered
SyncInDownload(k, w, noteError, folderError) ==
    IF noteError # NoThrow THEN Throw(k, w, noteError)
    ELSE IF folderError # NoThrow THEN Throw(k, w, folderError)
    ELSE LET w1 == [w EXCEPT !.p.noteData = DownloadEncryptedNotes(w.rNotes, w.p.latestLocal),
                             !.p.folderData = DownloadEncryptedFolders(w.rFolders)]
         IN IF Len(w1.p.noteData) > 0 THEN [w1 EXCEPT !.p.pc = "inUpsertNotes"]
            ELSE SyncInFolders(k, w1)

SyncInLatestAttachment(k, w) ==
    [w EXCEPT !.p.latestAttachment = GetLatestLocalAttachmentCreatedAt(w.attachments),
              !.p.pc = "inDownload"]

SyncInLatestNote(k, w) ==
    [w EXCEPT !.p.latestLocal = GetLatestLocalNoteUpdatedAt(w.notes),
              !.p.pc = "inLatestAtt"]

\* ----------------------------------------------------------------- fullSync

FullSyncNoGuard(k, w) ==
    IF ~IsClient THEN [w EXCEPT !.ev.call = "notClient"]
    ELSE IF ~IsOnline
    THEN [SetStatus(w, [offline |-> TRUE]) EXCEPT !.ev.call = "offline"]
    ELSE FullSyncTry(k,
            [SetStatus([w EXCEPT !.syncing = TRUE],
                       [isSyncing |-> TRUE, lastError |-> NoError, offline |-> FALSE])
               EXCEPT !.flight = k,
                      !.p = [IdleProc EXCEPT !.kind = "full"],
                      !.ev.call = "started", !.ev.promise = k])

FullSyncNoOnlineCheck(k, w) ==
    IF ~IsClient THEN [w EXCEPT !.ev.call = "notClient"]
    ELSE IF w.syncing THEN [w EXCEPT !.ev.call = "coalesced", !.ev.promise = w.flight]
    ELSE FullSyncTry(k,
            [SetStatus([w EXCEPT !.syncing = TRUE],
                       [isSyncing |-> TRUE, lastError |-> NoError, offline |-> FALSE])
               EXCEPT !.flight = k,
                      !.p = [IdleProc EXCEPT !.kind = "full"],
                      !.ev.call = "started", !.ev.promise = k])

\* A listener of Reentrant calls fullSync() from inside its callback when the
\* status it is given says isSyncing; this is that call while updateStatus of
\* line 340 is notifying: it finds the guard set and returns syncInFlight as
\* it is at that moment (ev.nested).
FullSyncFromListener(w) ==
    IF w.syncing /\ Reentrant \cap w.st.listeners # {}
    THEN [w EXCEPT !.ev.nested = w.flight]
    ELSE w

\* fullSync() up to its first awaited call; k is the slot a new pass takes.
\* ev records what the call returned: nothing, the in-flight completion, or
\* the completion of the pass it started.
FullSync(k, w) ==
    IF ~IsClient THEN [w EXCEPT !.ev.call = "notClient"]
    ELSE IF w.syncing THEN [w EXCEPT !.ev.call = "coalesced", !.ev.promise = w.flight]
    ELSE IF ~IsOnline
    THEN [SetStatus(w, [offline |-> TRUE]) EXCEPT !.ev.call = "offline"]
    ELSE FullSyncTry(k,
            [FullSyncFromListener(
                SetStatus([w EXCEPT !.syncing = TRUE],
                          [isSyncing |-> TRUE, lastError |-> NoError, offline |-> FALSE]))
               EXCEPT !.flight = k,
                      !.p = [IdleProc EXCEPT !.kind = "full"],
                      !.ev.call = "started", !.ev.promise = k])

\* the slot a new process takes
NewSlot == CHOOSE k \in FreeSlots : \A j \in FreeSlots : k <= j

\* ------------------------------------------------------------------ actions

\* a manual trigger (useSync's mount effect, triggerSync)
ManualSync ==
    /\ FreeSlots # {}
    /\ Apply(NewSlot, FullSync(NewSlot, [World(NewSlot) EXCEPT !.ev.trigger = "manual"]))
    /\ UNCHANGED <<envVars, edits, redits>>

PeriodicTickAlways ==
    /\ IsClient
    /\ FreeSlots # {}
    /\ LET k == NewSlot
           w == [World(k) EXCEPT !.ev.trigger = "tick"]
       IN Apply(k, FullSync(k, w))
    /\ UNCHANGED <<envVars, edits, redits>>

\* periodicSync: one tick of the interval timer
PeriodicTick ==
    /\ IsClient
    /\ FreeSlots # {}
    /\ LET k == NewSlot
           w == [World(k) EXCEPT !.ev.trigger = "tick"]
       IN Apply(k, IF IsOnline THEN FullSync(k, w)
                   ELSE SetStatus(w, [offline |-> TRUE]))
    /\ UNCHANGED <<envVars, edits, redits>>

\* the browser changes navigator.onLine and queues the online / offline event
ConnectivityChange ==
    /\ IsClient
    /\ onLine' = ~onLine
    /\ evt' = TRUE
    /\ ev' = NoEv
    /\ UNCHANGED <<client, now, isSyncing, currentStatus, syncInFlight, proc,
                   localVars, remoteVars, unsynced, cleanEpoch, edits, redits,
                   statusListeners, cryptoVars>>

OnlineHandlerNoSync ==
    /\ IsClient
    /\ evt
    /\ FreeSlots # {}
    /\ evt' = FALSE
    /\ LET k == NewSlot
           w == [SetStatus([World(k) EXCEPT !.ev.trigger = "event"],
                           [offline |-> ~IsOnline])
                   EXCEPT !.ev.heard = IF IsOnline THEN "true" ELSE "false"]
       IN Apply(k, w)
    /\ UNCHANGED <<client, onLine, now, edits, redits, statusListeners, cryptoVars>>

\* watchOnlineStatus: the handler of the online / offline event
OnlineHandler ==
    /\ IsClient
    /\ evt
    /\ FreeSlots # {}
    /\ evt' = FALSE
    /\ LET k == NewSlot
           w == [SetStatus([World(k) EXCEPT !.ev.trigger = "event"],
                           [offline |-> ~IsOnline])
                   EXCEPT !.ev.heard = IF IsOnline THEN "true" ELSE "false"]
       IN Apply(k, IF IsOnline THEN FullSync(k, w) ELSE w)
    /\ UNCHANGED <<client, onLine, now, edits, redits, statusListeners, cryptoVars>>

\* subscribeToSyncStatus(l): add the listener, call it with the current status
Subscribe ==
    \E l \in Listeners :
        /\ statusListeners' = statusListeners \cup {l}
        /\ ev' = [NoEv EXCEPT !.subscribed = l, !.delivered[l] = <<currentStatus>>]
        /\ UNCHANGED <<client, onLine, evt, now, isSyncing, currentStatus, syncInFlight,
                       proc, localVars, remoteVars, unsynced, cleanEpoch, edits, redits,
                       cryptoVars>>

\* the handle subscribeToSyncStatus(l) returned is called
Unsubscribe ==
    \E l \in statusListeners :
        /\ statusListeners' = statusListeners \ {l}
        /\ ev' = [NoEv EXCEPT !.unsubscribed = l]
        /\ UNCHANGED <<client, onLine, evt, now, isSyncing, currentStatus, syncInFlight,
                       proc, localVars, remoteVars, unsynced, cleanEpoch, edits, redits,
                       cryptoVars>>

\* syncOut() called directly, while no other synchronisation runs
CallSyncOut ==
    /\ Active = {}
    /\ LET k == NewSlot
       IN Apply(k, BeginSyncOut(k, [World(k) EXCEPT !.p = [IdleProc EXCEPT !.kind = "out"]]))
    /\ UNCHANGED <<envVars, edits, redits>>

\* syncIn() called directly, while no other synchronisation runs
CallSyncIn ==
    /\ Active = {}
    /\ LET k == NewSlot
       IN Apply(k, BeginSyncIn(k, [World(k) EXCEPT !.p = [IdleProc EXCEPT !.kind = "in"]]))
    /\ UNCHANGED <<envVars, edits, redits>>

Step(k, w) == Apply(k, w) /\ UNCHANGED <<envVars, edits, redits>>

Responses == {NoThrow} \cup RemoteErrors

\* history: the world of process k when a remote call has answered res
Answered(k, res) == [World(k) EXCEPT !.ev.reported = res.message]

OutNotesRead ==
    \E k \in Slots : proc[k].pc = "outNotesRead" /\ Step(k, SyncOutNotesRead(k, World(k)))

OutNotesUpload ==
    \E k \in Slots : /\ proc[k].pc = "outNotesUpload"
                     /\ \E res \in Responses : Step(k, SyncOutNotesUpload(k, Answered(k, res), res))

OutNotesClean ==
    \E k \in Slots : proc[k].pc = "outNotesClean" /\ Step(k, SyncOutNotesClean(k, World(k)))

OutFoldersRead ==
    \E k \in Slots : proc[k].pc = "outFoldersRead" /\ Step(k, SyncOutFoldersRead(k, World(k)))

OutFoldersUpload ==
    \E k \in Slots : /\ proc[k].pc = "outFoldersUpload"
                     /\ \E res \in Responses : Step(k, SyncOutFoldersUpload(k, Answered(k, res), res))

OutFoldersClean ==
    \E k \in Slots : proc[k].pc = "outFoldersClean" /\ Step(k, SyncOutFoldersClean(k, World(k)))

OutAttsRead ==
    \E k \in Slots : proc[k].pc = "outAttsRead" /\ Step(k, SyncOutAttachmentsRead(k, World(k)))

OutAttsUpload ==
    \E k \in Slots : /\ proc[k].pc = "outAttsUpload"
                     /\ \E res \in Responses : Step(k, SyncOutAttachmentsUpload(k, Answered(k, res), res))

OutAttsClean ==
    \E k \in Slots : proc[k].pc = "outAttsClean" /\ Step(k, SyncOutAttachmentsClean(k, World(k)))

OutLog ==
    \E k \in Slots : /\ proc[k].pc = "outLog"
                     /\ \E res \in Responses :
                            Step(k, SyncOutLog(k, Answered(k, res), res = NoThrow))

InLatestNote ==
    \E k \in Slots : proc[k].pc = "inLatestNote" /\ Step(k, SyncInLatestNote(k, World(k)))

InLatestAtt ==
    \E k \in Slots : proc[k].pc = "inLatestAtt" /\ Step(k, SyncInLatestAttachment(k, World(k)))

InDownload ==
    \E k \in Slots : /\ proc[k].pc = "inDownload"
                     /\ \E noteError \in Responses, folderError \in Responses :
                            Step(k, SyncInDownload(k,
                                        [Answered(k, folderError)
                                           EXCEPT !.ev.noteReported = noteError.message],
                                        noteError, folderError))

InUpsertNotes ==
    \E k \in Slots : proc[k].pc = "inUpsertNotes" /\ Step(k, SyncInUpsertNotes(k, World(k)))

InUpsertFolders ==
    \E k \in Slots : proc[k].pc = "inUpsertFolders" /\ Step(k, SyncInUpsertFolders(k, World(k)))

InAttByNote ==
    \E k \in Slots : /\ proc[k].pc = "inAttByNote"
                     /\ \E err \in Responses : Step(k, SyncInAttByNote(k, Answered(k, err), err))

InAttByCreated ==
    \E k \in Slots : /\ proc[k].pc = "inAttByCreated"
                     /\ \E err \in Responses : Step(k, SyncInAttByCreated(k, Answered(k, err), err))

InUpsertAtts ==
    \E k \in Slots : proc[k].pc = "inUpsertAtts" /\ Step(k, SyncInUpsertAttachments(k, World(k)))

InLog ==
    \E k \in Slots : /\ proc[k].pc = "inLog"
                     /\ \E res \in Responses :
                            Step(k, SyncInLog(k, Answered(k, res), res = NoThrow))

SyncOutSteps ==
    \/ OutNotesRead \/ OutNotesUpload \/ OutNotesClean
    \/ OutFoldersRead \/ OutFoldersUpload \/ OutFoldersClean
    \/ OutAttsRead \/ OutAttsUpload \/ OutAttsClean
    \/ OutLog

SyncInSteps ==
    \/ InLatestNote \/ InLatestAtt \/ InDownload
    \/ InUpsertNotes \/ InUpsertFolders
    \/ InAttByNote \/ InAttByCreated \/ InUpsertAtts
    \/ InLog

\* ------------------------------------------------------------ local mutations

LocalBodies == {"x"}
RemoteBodies == {"y"}

\* history: a local mutation of the rows ids is contained in no snapshot a
\* running syncOut has taken, and ends every quiet / calm period
Touch(ids) ==
    [k \in Slots |-> [proc[k] EXCEPT !.cov = proc[k].cov \ ids,
                                      !.quiet = FALSE, !.calm = FALSE,
                                      !.notes0 = EmptyTable]]

\* history: a write by another client ends every calm period
Disturb ==
    [k \in Slots |-> [proc[k] EXCEPT !.calm = FALSE,
                                      !.notes0 = EmptyTable]]

LocalEdit(touched, gone) ==
    /\ edits < MaxEdits
    /\ edits' = edits + 1
    /\ proc' = Touch(touched \cup gone)
    /\ unsynced' = (unsynced \cup touched) \ gone
    /\ cleanEpoch' = FALSE
    /\ ev' = NoEv
    /\ UNCHANGED <<envVars, isSyncing, currentStatus, syncInFlight, remoteVars, redits>>

\* withDirtyDefault: dirty is true unless the payload says otherwise
WithDirtyDefault(row) == [row EXCEPT !.dirty = TRUE]

\* useNotes.createNote -> db.createNote
CreateNote ==
    \E id \in NoteIds \ (DOMAIN notes \cup DOMAIN rNotes), b \in LocalBodies :
        /\ notes' = Put(notes, id, WithDirtyDefault(
                        [id |-> id, body |-> b, updatedAt |-> now,
                         attachments |-> <<>>, dirty |-> FALSE]))
        /\ UNCHANGED <<folders, attachments>>
        /\ LocalEdit({id}, {})

\* useNotes.updateNote -> db.updateNote: Table.update changes an existing row
UpdateNote ==
    \E id \in DOMAIN notes, b \in LocalBodies :
        /\ notes' = [notes EXCEPT ![id] =
                        WithDirtyDefault([notes[id] EXCEPT !.body = b, !.updatedAt = now])]
        /\ UNCHANGED <<folders, attachments>>
        /\ LocalEdit({id}, {})

\* useNotes.deleteNote: markDirty.note, then db.deleteNote (the note and the
\* attachments of the note, in one transaction)
DeleteNote ==
    \E id \in DOMAIN notes :
        LET atts == {a \in DOMAIN attachments : attachments[a].noteId = id}
        IN /\ notes' = Delete(notes, id)
           /\ attachments' = [a \in DOMAIN attachments \ atts |-> attachments[a]]
           /\ UNCHANGED folders
           /\ LocalEdit({}, {id} \cup atts)

\* useFolders.createFolder -> db.createFolder
CreateFolder ==
    \E id \in FolderIds \ (DOMAIN folders \cup DOMAIN rFolders), b \in LocalBodies :
        /\ folders' = Put(folders, id, WithDirtyDefault(
                        [id |-> id, body |-> b, createdAt |-> now, dirty |-> FALSE]))
        /\ UNCHANGED <<notes, attachments>>
        /\ LocalEdit({id}, {})

\* useFolders.updateFolder -> db.updateFolder: the name changes, createdAt stays
UpdateFolder ==
    \E id \in DOMAIN folders, b \in LocalBodies :
        /\ folders' = [folders EXCEPT ![id] = WithDirtyDefault([folders[id] EXCEPT !.body = b])]
        /\ UNCHANGED <<notes, attachments>>
        /\ LocalEdit({id}, {})

\* Array.from(new Set([...current, attachmentId]))
AppendUnique(list, id) == IF id \in SeqRange(list) THEN list ELSE Append(list, id)

\* addImageAttachment: storeEncryptedAttachment, then updateNoteAttachmentList
\* (the writes the handler awaits one after the other are taken as one step)
AddImageAttachment ==
    \E noteId \in DOMAIN notes,
       id \in AttachmentIds \ (DOMAIN attachments \cup DOMAIN rAttachments),
       b \in LocalBodies :
        /\ attachments' = Put(attachments, id, WithDirtyDefault(
                            [id |-> id, noteId |-> noteId, body |-> b,
                             createdAt |-> now, dirty |-> FALSE]))
        /\ notes' = [notes EXCEPT ![noteId] =
                        WithDirtyDefault([notes[noteId] EXCEPT
                            !.attachments = AppendUnique(notes[noteId].attachments, id),
                            !.updatedAt = now])]
        /\ UNCHANGED folders
        /\ LocalEdit({id, noteId}, {})

\* current.filter((id) => id !== attachmentId)
Without(list, id) == SelectSeq(list, LAMBDA x : x # id)

\* removeAttachment: markDirty.attachment, deleteAttachment, then
\* updateNoteAttachmentList(noteId, attachmentId, true) (the writes the handler
\* awaits one after the other are taken as one step)
RemoveAttachment ==
    \E id \in DOMAIN attachments :
        LET noteId == attachments[id].noteId
        IN /\ attachments' = Delete(attachments, id)
           /\ notes' = IF noteId \in DOMAIN notes
                        THEN [notes EXCEPT ![noteId] =
                                WithDirtyDefault([notes[noteId] EXCEPT
                                    !.attachments = Without(notes[noteId].attachments, id),
                                    !.updatedAt = now])]
                        ELSE notes
           /\ UNCHANGED folders
           /\ LocalEdit({noteId} \cap DOMAIN notes, {id})

LocalMutations ==
    \/ CreateNote \/ UpdateNote \/ DeleteNote
    \/ CreateFolder \/ UpdateFolder
    \/ AddImageAttachment

\* ------------------------------------------------- writes by other clients

RemoteEdit ==
    /\ redits < MaxRemoteEdits
    /\ redits' = redits + 1
    /\ proc' = Disturb
    /\ ev' = NoEv
    /\ UNCHANGED <<envVars, isSyncing, currentStatus, syncInFlight, localVars,
                   unsynced, cleanEpoch, edits, rLog>>

\* another client's syncOut upserts a note: one the remote holds, or a new
\* one (ids are UUIDs: a new id is in no other store)
RemoteNote ==
    \E id \in DOMAIN rNotes \cup (NoteIds \ DOMAIN notes), b \in RemoteBodies, t \in Times :
        /\ rNotes' = Put(rNotes, id, [id |-> id, body |-> b, updated_at |-> t])
        /\ UNCHANGED <<rFolders, rAttachments>>
        /\ RemoteEdit

\* another client's syncOut upserts a folder
RemoteFolder ==
    \E id \in DOMAIN rFolders \cup (FolderIds \ DOMAIN folders), b \in RemoteBodies,
       t \in Times :
        /\ rFolders' = Put(rFolders, id, [id |-> id, body |-> b, created_at |-> t])
        /\ UNCHANGED <<rNotes, rAttachments>>
        /\ RemoteEdit

\* another client's syncOut upserts a new attachment of a note the remote holds
RemoteAttachment ==
    \E id \in AttachmentIds \ (DOMAIN rAttachments \cup DOMAIN attachments),
       noteId \in DOMAIN rNotes, b \in RemoteBodies, t \in Times :
        /\ rAttachments' = Put(rAttachments, id,
                               [id |-> id, note_id |-> noteId, body |-> b, created_at |-> t])
        /\ UNCHANGED <<rNotes, rFolders>>
        /\ RemoteEdit

RemoteWrites == RemoteNote \/ RemoteFolder \/ RemoteAttachment

\* the wall clock advances
Tick ==
    /\ now < MaxTime
    /\ now' = now + 1
    /\ ev' = NoEv
    /\ UNCHANGED <<client, onLine, evt, isSyncing, currentStatus, syncInFlight, proc,
                   localVars, remoteVars, unsynced, cleanEpoch, edits, redits,
                   statusListeners, cryptoVars>>

\* ------------------------------------------------------ encryption service
\* services/utilities.ts. Strings are sequences of UTF-16 code units, buffers
\* are sequences of bytes, base64 text is a sequence of sextets (64 = '=').

\* the browser tabs (processes) of one installation
Tabs == {"t1", "t2"}
\* what crypto.getRandomValues can return for the 32 key bytes (0 = no key)
KeyMaterial == {1, 2}
IV_LENGTH_BYTES == 12
\* AES-GCM appends a 128-bit authentication tag to the ciphertext
TAG_LENGTH_BYTES == 16
\* what crypto.getRandomValues can return for the 12 IV bytes
RandomIvs == {[i \in 1..IV_LENGTH_BYTES |-> b] : b \in {3, 200}}
\* code units of the plaintexts: "a", U+FEFF, and the surrogates of U+1F600
CodeUnits == {97, 65279, 55357, 56832}
\* length of the plaintext strings, and how many calls a behaviour contains
MaxLen == 2
MaxCalls == 2
Strings == UNION {[1..n -> CodeUnits] : n \in 0..MaxLen}
Blobs == {<<>>, <<0>>, <<255, 7>>}

RECURSIVE SumSeq(_)
SumSeq(s) == IF s = <<>> THEN 0 ELSE s[1] + SumSeq(Tail(s))

IsHighSurrogate(c) == c >= 55296 /\ c <= 56319
IsLowSurrogate(c) == c >= 56320 /\ c <= 57343

\* UTF-8 of one code point
Utf8OfCodePoint(cp) ==
    IF cp < 128 THEN <<cp>>
    ELSE IF cp < 2048 THEN <<192 + cp \div 64, 128 + (cp % 64)>>
    ELSE IF cp < 65536
         THEN <<224 + cp \div 4096, 128 + ((cp \div 64) % 64), 128 + (cp % 64)>>
         ELSE <<240 + cp \div 262144, 128 + ((cp \div 4096) % 64),
                128 + ((cp \div 64) % 64), 128 + (cp % 64)>>

\* new TextEncoder().encode(s): a surrogate pair is one code point, a lone
\* surrogate is replaced by U+FFFD
RECURSIVE TextEncode(_)
TextEncode(s) ==
    IF s = <<>> THEN <<>>
    ELSE IF IsHighSurrogate(s[1]) /\ Len(s) > 1 /\ IsLowSurrogate(s[2])
         THEN Utf8OfCodePoint(65536 + (s[1] - 55296) * 1024 + (s[2] - 56320))
                  \o TextEncode(SubSeq(s, 3, Len(s)))
         ELSE IF IsHighSurrogate(s[1]) \/ IsLowSurrogate(s[1])
              THEN Utf8OfCodePoint(65533) \o TextEncode(Tail(s))
              ELSE Utf8OfCodePoint(s[1]) \o TextEncode(Tail(s))

\* the code units of one code point
CodeUnitsOf(cp) ==
    IF cp < 65536 THEN <<cp>>
    ELSE <<55296 + (cp - 65536) \div 1024, 56320 + ((cp - 65536) % 1024)>>

\* the UTF-8 decoder: a malformed byte becomes U+FFFD
RECURSIVE Utf8Decode(_)
Utf8Decode(b) ==
    IF b = <<>> THEN <<>>
    ELSE IF b[1] < 128 THEN <<b[1]>> \o Utf8Decode(Tail(b))
    ELSE IF b[1] >= 192 /\ b[1] < 224 /\ Len(b) >= 2
         THEN CodeUnitsOf((b[1] - 192) * 64 + (b[2] - 128))
                  \o Utf8Decode(SubSeq(b, 3, Len(b)))
    ELSE IF b[1] >= 224 /\ b[1] < 240 /\ Len(b) >= 3
         THEN CodeUnitsOf((b[1] - 224) * 4096 + (b[2] - 128) * 64 + (b[3] - 128))
                  \o Utf8Decode(SubSeq(b, 4, Len(b)))
    ELSE IF b[1] >= 240 /\ b[1] < 245 /\ Len(b) >= 4
         THEN CodeUnitsOf((b[1] - 240) * 262144 + (b[2] - 128) * 4096
                              + (b[3] - 128) * 64 + (b[4] - 128))
                  \o Utf8Decode(SubSeq(b, 5, Len(b)))
    ELSE <<65533>> \o Utf8Decode(Tail(b))

\* new TextDecoder().decode(b): ignoreBOM is false, so a leading U+FEFF is
\* taken for a byte order mark and removed
TextDecode(b) ==
    LET u == Utf8Decode(b)
    IN IF u # <<>> /\ u[1] = 65279 THEN Tail(u) ELSE u

\* arrayBufferToBase64: btoa of the bytes
RECURSIVE ArrayBufferToBase64(_)
ArrayBufferToBase64(b) ==
    IF b = <<>> THEN <<>>
    ELSE IF Len(b) = 1 THEN <<b[1] \div 4, (b[1] % 4) * 16, 64, 64>>
    ELSE IF Len(b) = 2
         THEN <<b[1] \div 4, (b[1] % 4) * 16 + b[2] \div 16, (b[2] % 16) * 4, 64>>
         ELSE <<b[1] \div 4, (b[1] % 4) * 16 + b[2] \div 16,
                (b[2] % 16) * 4 + b[3] \div 64, b[3] % 64>>
                  \o ArrayBufferToBase64(SubSeq(b, 4, Len(b)))

\* base64ToUint8Array: the bytes of atob
RECURSIVE Base64ToUint8Array(_)
Base64ToUint8Array(s) ==
    IF Len(s) < 4 THEN <<>>
    ELSE IF s[3] = 64 THEN <<s[1] * 4 + s[2] \div 16>>
    ELSE IF s[4] = 64
         THEN <<s[1] * 4 + s[2] \div 16, (s[2] % 16) * 16 + s[3] \div 4>>
         ELSE <<s[1] * 4 + s[2] \div 16, (s[2] % 16) * 16 + s[3] \div 4,
                (s[3] % 4) * 64 + s[4]>>
                  \o Base64ToUint8Array(SubSeq(s, 5, Len(s)))

\* AES-GCM: a key stream that depends on key and IV, and a tag that
\* authenticates key, IV and plaintext
KeyStream(key, iv, i) == (key * 17 + SumSeq(iv) + i) % 256
GcmTag(key, iv, buffer) ==
    [j \in 1..TAG_LENGTH_BYTES |-> (key * 31 + SumSeq(iv) + SumSeq(buffer) + j) % 256]
\* crypto.subtle.encrypt({name: 'AES-GCM', iv}, key, buffer)
SubtleEncrypt(key, iv, buffer) ==
    [i \in 1..Len(buffer) |-> (buffer[i] + KeyStream(key, iv, i)) % 256]
        \o GcmTag(key, iv, buffer)
\* crypto.subtle.decrypt({name: 'AES-GCM', iv}, key, cipher): rejects when
\* the tag does not verify
SubtleDecrypt(key, iv, cipher) ==
    IF Len(cipher) < TAG_LENGTH_BYTES THEN [ok |-> FALSE, buffer |-> <<>>]
    ELSE LET n == Len(cipher) - TAG_LENGTH_BYTES
             buffer == [i \in 1..n |-> (cipher[i] + 256 - KeyStream(key, iv, i)) % 256]
         IN [ok |-> SubSeq(cipher, n + 1, Len(cipher)) = GcmTag(key, iv, buffer),
             buffer |-> buffer]

ConcatCipherOnly(iv, cipher) == cipher
ConcatIvAndCipher(iv, cipher) == iv \o cipher
SplitIvAndCipher(payload) ==
    [iv |-> SubSeq(payload, 1, IV_LENGTH_BYTES),
     cipher |-> SubSeq(payload, IV_LENGTH_BYTES + 1, Len(payload))]

\* encryptBuffer, after the key has arrived
EncryptBuffer(key, iv, buffer) == ConcatIvAndCipher(iv, SubtleEncrypt(key, iv, buffer))
\* decryptBuffer, after the key has arrived
DecryptBuffer(key, payload) ==
    SubtleDecrypt(key, SplitIvAndCipher(payload).iv, SplitIvAndCipher(payload).cipher)

\* what a call returns once the key is there: encryptText, decryptText,
\* encryptBlob, decryptBlob
Outcome(op, key, iv, arg) ==
    CASE op = "encryptText" ->
           [ok |-> TRUE, out |-> ArrayBufferToBase64(EncryptBuffer(key, iv, TextEncode(arg)))]
      [] op = "decryptText" ->
           LET d == DecryptBuffer(key, Base64ToUint8Array(arg))
           IN [ok |-> d.ok, out |-> IF d.ok THEN TextDecode(d.buffer) ELSE <<>>]
      [] op = "encryptBlob" -> [ok |-> TRUE, out |-> EncryptBuffer(key, iv, arg)]
      [] op = "decryptBlob" ->
           LET d == DecryptBuffer(key, arg)
           IN [ok |-> d.ok, out |-> d.buffer]

NoTab == [keyPromise |-> "null", key |-> 0, pc |-> "none", stored |-> 0, rawKey |-> 0,
          lookups |-> 0, generated |-> 0]

\* history: the calls of a tab that have returned
Done(op) == {i \in DOMAIN calls : calls[i].op = op /\ calls[i].state = "done"}

GetEncryptionKeyUncached(t) ==
    [tab[t] EXCEPT !.keyPromise = "pending", !.pc = "lookup", !.stored = keyStorage,
                   !.lookups = @ + 1]

\* getEncryptionKey in tab t: the first call assigns keyPromise and runs the
\* lookup up to its first await, which is after localStorage.getItem
GetEncryptionKey(t) ==
    IF tab[t].keyPromise = "null"
    THEN [tab[t] EXCEPT !.keyPromise = "pending", !.pc = "lookup", !.stored = keyStorage,
                        !.lookups = @ + 1]
    ELSE tab[t]

engineVars == <<client, onLine, evt, now, isSyncing, currentStatus, syncInFlight, proc,
                notes, folders, attachments, rNotes, rFolders, rAttachments, rLog,
                unsynced, cleanEpoch, edits, redits, statusListeners, ev>>

\* a call of op(arg) in tab t, up to the await of getEncryptionKey()
StartCall(t, op, arg) ==
    /\ Len(calls) < MaxCalls
    /\ calls' = Append(calls, [tab |-> t, op |-> op, arg |-> arg, state |-> "waiting",
                               early |-> tab[t].keyPromise # "resolved",
                               key |-> 0, handle |-> 0, iv |-> <<>>, out |-> <<>>])
    /\ tab' = [tab EXCEPT ![t] = GetEncryptionKey(t)]
    /\ UNCHANGED <<keyStorage, engineVars>>

\* importKeyFromStorage has answered: the stored key, or none and
\* generateAndStoreKey draws the key bytes and awaits importKey
KeyLookedUp ==
    \E t \in Tabs :
        /\ tab[t].pc = "lookup"
        /\ \/ /\ tab[t].stored # 0
              /\ tab' = [tab EXCEPT ![t].keyPromise = "resolved", ![t].pc = "none",
                                    ![t].key = tab[t].stored]
           \/ /\ tab[t].stored = 0
              /\ \E rawKey \in KeyMaterial :
                    tab' = [tab EXCEPT ![t].pc = "generated", ![t].rawKey = rawKey,
                                       ![t].generated = @ + 1]
        /\ UNCHANGED <<keyStorage, calls, engineVars>>

\* generateAndStoreKey: the extractable key is imported, persistKey awaits
\* exportKey
KeyImported ==
    \E t \in Tabs :
        /\ tab[t].pc = "generated"
        /\ tab' = [tab EXCEPT ![t].pc = "exporting"]
        /\ UNCHANGED <<keyStorage, calls, engineVars>>

\* persistKey: localStorage.setItem; generateAndStoreKey awaits the second
\* importKey
KeyPersisted ==
    \E t \in Tabs :
        /\ tab[t].pc = "exporting"
        /\ keyStorage' = tab[t].rawKey
        /\ tab' = [tab EXCEPT ![t].pc = "persisted"]
        /\ UNCHANGED <<calls, engineVars>>

\* generateAndStoreKey returns the non-extractable key: keyPromise resolves
KeyGenerated ==
    \E t \in Tabs :
        /\ tab[t].pc = "persisted"
        /\ tab' = [tab EXCEPT ![t].keyPromise = "resolved", ![t].pc = "none",
                              ![t].key = tab[t].rawKey]
        /\ UNCHANGED <<keyStorage, calls, engineVars>>

\* the key arrives at a waiting call, which draws its IV (when it encrypts)
\* and returns
FinishCall ==
    \E i \in DOMAIN calls, iv \in RandomIvs :
        LET c == calls[i]
            r == Outcome(c.op, tab[c.tab].key, iv, c.arg)
        IN /\ c.state = "waiting"
           /\ tab[c.tab].keyPromise = "resolved"
           /\ calls' = [calls EXCEPT ![i].state = IF r.ok THEN "done" ELSE "failed",
                                     ![i].key = tab[c.tab].key,
                                     ![i].handle = tab[c.tab].lookups,
                                     ![i].iv = IF c.op \in {"encryptText", "encryptBlob"}
                                               THEN iv ELSE <<>>,
                                     ![i].out = r.out]
           /\ UNCHANGED <<keyStorage, tab, engineVars>>

InitCrypto ==
    /\ keyStorage = 0
    /\ tab = [t \in Tabs |-> NoTab]
    /\ calls = <<>>

\* ----------------------------------------------------------- specifications

InitEngine ==
    /\ now = 1
    /\ isSyncing = FALSE
    /\ currentStatus = [isSyncing |-> FALSE, lastRun |-> 0, lastError |-> NoError,
                        offline |-> ~IsOnline]
    /\ syncInFlight = 0
    /\ statusListeners = {}
    /\ InitCrypto
    /\ proc = [k \in Slots |-> IdleProc]
    /\ cleanEpoch = FALSE
    /\ ev = NoEv

InitEmptyStores ==
    /\ notes = EmptyTable /\ folders = EmptyTable /\ attachments = EmptyTable
    /\ rNotes = EmptyTable /\ rFolders = EmptyTable /\ rAttachments = EmptyTable
    /\ rLog = {}
    /\ unsynced = {}
    /\ edits = 0 /\ redits = 0

\* A device that was used offline (a note with an attachment and a folder
\* wait for their upload) while another client uploaded a note with an
\* attachment.
InitSeededStores ==
    /\ notes = ("n1" :> [id |-> "n1", body |-> "x", updatedAt |-> 1,
                         attachments |-> <<"a1">>, dirty |-> TRUE])
    /\ folders = ("f1" :> [id |-> "f1", body |-> "x", createdAt |-> 1, dirty |-> TRUE])
    /\ attachments = ("a1" :> [id |-> "a1", noteId |-> "n1", body |-> "x",
                               createdAt |-> 1, dirty |-> TRUE])
    /\ rNotes = ("n2" :> [id |-> "n2", body |-> "y", updated_at |-> 2])
    /\ rFolders = EmptyTable
    /\ rAttachments = ("a2" :> [id |-> "a2", note_id |-> "n2", body |-> "y",
                                created_at |-> 2])
    /\ rLog = {}
    /\ unsynced = {"n1", "f1", "a1"}
    /\ edits = 0 /\ redits = 0

\* A device whose note, folder and attachment are on both sides after an
\* earlier synchronisation.
InitSyncedStores ==
    /\ notes = ("n1" :> [id |-> "n1", body |-> "x", updatedAt |-> 1,
                         attachments |-> <<"a1">>, dirty |-> FALSE])
    /\ folders = ("f1" :> [id |-> "f1", body |-> "x", createdAt |-> 1, dirty |-> FALSE])
    /\ attachments = ("a1" :> [id |-> "a1", noteId |-> "n1", body |-> "x",
                               createdAt |-> 1, dirty |-> FALSE])
    /\ rNotes = ("n1" :> [id |-> "n1", body |-> "x", updated_at |-> 1])
    /\ rFolders = ("f1" :> [id |-> "f1", body |-> "x", created_at |-> 1])
    /\ rAttachments = ("a1" :> [id |-> "a1", note_id |-> "n1", body |-> "x",
                                created_at |-> 1])
    /\ rLog = {}
    /\ unsynced = {}
    /\ edits = 0 /\ redits = 0

\* The engine with its three triggers and a connection that comes and goes.
Init ==
    /\ client \in BOOLEAN
    /\ onLine \in BOOLEAN
    /\ evt = client
    /\ InitEngine
    /\ InitEmptyStores \/ InitSeededStores

Next ==
    \/ ManualSync
    \/ PeriodicTick
    \/ ConnectivityChange
    \/ OnlineHandler
    \/ SyncOutSteps
    \/ SyncInSteps
    \/ Tick

Spec == Init /\ [][Next]_vars

\* syncOut called directly, among local mutations.
InitOut ==
    /\ client = TRUE /\ onLine = TRUE /\ evt = FALSE
    /\ InitEngine
    /\ InitEmptyStores

NextOut ==
    \/ CallSyncOut
    \/ SyncOutSteps
    \/ LocalMutations
    \/ Tick

SpecOut == InitOut /\ [][NextOut]_vars

\* syncIn called directly, among local mutations and writes by other clients.
NextIn ==
    \/ CallSyncIn
    \/ SyncInSteps
    \/ LocalMutations
    \/ RemoteWrites
    \/ Tick

InitIn ==
    /\ client = TRUE /\ onLine = TRUE /\ evt = FALSE
    /\ InitEngine
    /\ InitEmptyStores \/ InitSyncedStores

SpecIn == InitIn /\ [][NextIn]_vars

\* syncIn called directly, among the operations that keep the attachment
\* lists of the notes.
NextLists ==
    \/ CallSyncIn
    \/ SyncInSteps
    \/ CreateNote
    \/ AddImageAttachment
    \/ RemoveAttachment
    \/ DeleteNote
    \/ RemoteWrites

SpecLists == InitIn /\ [][NextLists]_vars

\* The engine with its three triggers, with syncOut and syncIn also called
\* directly.
NextWatch ==
    \/ ManualSync
    \/ PeriodicTick
    \/ ConnectivityChange
    \/ OnlineHandler
    \/ CallSyncOut
    \/ CallSyncIn
    \/ SyncOutSteps
    \/ SyncInSteps

SpecWatch == Init /\ [][NextWatch]_vars

\* The engine with its three triggers and listeners that subscribe to the
\* status and unsubscribe.
NextStatus ==
    \/ Subscribe
    \/ Unsubscribe
    \/ ManualSync
    \/ PeriodicTick
    \/ ConnectivityChange
    \/ OnlineHandler
    \/ SyncOutSteps
    \/ SyncInSteps

SpecStatus == Init /\ [][NextStatus]_vars

\* syncOut and syncIn called directly while the connection comes and goes.
InitGate ==
    /\ client = TRUE /\ onLine \in BOOLEAN /\ evt = FALSE
    /\ InitEngine
    /\ InitSeededStores

NextGate ==
    \/ CallSyncOut
    \/ CallSyncIn
    \/ ConnectivityChange
    \/ SyncOutSteps
    \/ SyncInSteps

SpecGate == InitGate /\ [][NextGate]_vars

\* The engine of Spec when every awaited storage and remote adapter call
\* eventually resolves or rejects.
InitLive ==
    /\ client = TRUE /\ onLine \in BOOLEAN /\ evt = TRUE
    /\ InitEngine
    /\ InitSeededStores

NextLive ==
    \/ ManualSync
    \/ PeriodicTick
    \/ ConnectivityChange
    \/ OnlineHandler
    \/ SyncOutSteps
    \/ SyncInSteps

SpecLive == InitLive /\ [][NextLive]_vars /\ WF_vars(SyncOutSteps \/ SyncInSteps)

\* an upload call answers without an error
UploadSucceeds ==
    \E k \in Slots :
        \/ /\ proc[k].pc = "outNotesUpload"
           /\ Step(k, SyncOutNotesUpload(k, Answered(k, NoThrow), NoThrow))
        \/ /\ proc[k].pc = "outFoldersUpload"
           /\ Step(k, SyncOutFoldersUpload(k, Answered(k, NoThrow), NoThrow))
        \/ /\ proc[k].pc = "outAttsUpload"
           /\ Step(k, SyncOutAttachmentsUpload(k, Answered(k, NoThrow), NoThrow))

\* A device that stays online, whose periodic timer keeps firing, whose
\* awaited calls all answer and whose uploads succeed again and again, while
\* the user edits.
InitEventual ==
    /\ client = TRUE /\ onLine = TRUE /\ evt = FALSE
    /\ now = MaxTime
    /\ isSyncing = FALSE
    /\ currentStatus = [isSyncing |-> FALSE, lastRun |-> 0, lastError |-> NoError,
                        offline |-> ~IsOnline]
    /\ syncInFlight = 0
    /\ statusListeners = {}
    /\ InitCrypto
    /\ proc = [k \in Slots |-> IdleProc]
    /\ cleanEpoch = FALSE
    /\ ev = NoEv
    /\ InitSeededStores

\* the user edits a note, once
EditOnce == edits = 0 /\ UpdateNote

NextEventual ==
    \/ PeriodicTick
    \/ SyncOutSteps
    \/ SyncInSteps
    \/ EditOnce

SpecEventual ==
    /\ InitEventual /\ [][NextEventual]_vars
    /\ WF_vars(PeriodicTick)
    /\ WF_vars(SyncOutSteps \/ SyncInSteps)
    /\ SF_vars(UploadSucceeds)

\* fullSync() is called while a pass is in flight; the pass remembers that a
\* trigger arrived (history)
JoinPass ==
    /\ IsClient
    /\ isSyncing /\ syncInFlight # 0
    /\ LET k == syncInFlight
       IN Apply(k, [FullSync(k, [World(k) EXCEPT !.ev.trigger = "manual"])
                      EXCEPT !.p.joined = TRUE])
    /\ UNCHANGED <<envVars, edits, redits>>

NextCoalesce == Next \/ JoinPass

SpecCoalesce == Init /\ [][NextCoalesce]_vars

\* A client that shares the remote with other clients: its note and folder
\* are on both sides, an attachment added since waits for its upload, the
\* user edits note and folder, other clients upload theirs, and fullSync is
\* triggered.
InitShared ==
    /\ client = TRUE /\ onLine = TRUE /\ evt = FALSE
    /\ InitEngine
    /\ notes = ("n1" :> [id |-> "n1", body |-> "x", updatedAt |-> 1,
                         attachments |-> <<"a1">>, dirty |-> FALSE])
    /\ folders = ("f1" :> [id |-> "f1", body |-> "x", createdAt |-> 1, dirty |-> FALSE])
    /\ attachments = ("a1" :> [id |-> "a1", noteId |-> "n1", body |-> "x",
                               createdAt |-> 1, dirty |-> TRUE])
    /\ rNotes = ("n1" :> [id |-> "n1", body |-> "x", updated_at |-> 1])
    /\ rFolders = ("f1" :> [id |-> "f1", body |-> "x", created_at |-> 1])
    /\ rAttachments = EmptyTable
    /\ rLog = {}
    /\ unsynced = {"a1"}
    /\ edits = 0 /\ redits = 0

NextShared ==
    \/ ManualSync
    \/ SyncOutSteps
    \/ SyncInSteps
    \/ UpdateNote
    \/ UpdateFolder
    \/ RemoteNote
    \/ RemoteFolder

SpecShared == InitShared /\ [][NextShared]_vars

\* The same client when no other client writes and the user edits and
\* deletes: notes are never created here, so a note that is not in the
\* local store has been deleted by the user.
NextDelete ==
    \/ ManualSync
    \/ SyncOutSteps
    \/ SyncInSteps
    \/ UpdateNote
    \/ UpdateFolder
    \/ DeleteNote

SpecDelete == InitShared /\ [][NextDelete]_vars

\* the tabs of an installation use the service on one short text and one
\* small blob
KeyCalls ==
    \E t \in Tabs :
        \/ StartCall(t, "encryptText", <<97>>)
        \/ StartCall(t, "encryptBlob", <<7>>)
        \/ \E i \in Done("encryptText") : StartCall(t, "decryptText", calls[i].out)
        \/ \E i \in Done("encryptBlob") : StartCall(t, "decryptBlob", calls[i].out)

KeySteps == KeyLookedUp \/ KeyImported \/ KeyPersisted \/ KeyGenerated

InitKey ==
    /\ client = TRUE /\ onLine = TRUE /\ evt = FALSE
    /\ InitEngine
    /\ InitEmptyStores

NextKey == KeyCalls \/ KeySteps \/ FinishCall

SpecKey == InitKey /\ [][NextKey]_vars

\* one tab encrypts and decrypts texts and blobs
CipherCalls ==
    \/ \E x \in Strings : StartCall("t1", "encryptText", x)
    \/ \E x \in Blobs : StartCall("t1", "encryptBlob", x)
    \/ \E i \in Done("encryptText") : StartCall("t1", "decryptText", calls[i].out)
    \/ \E i \in Done("encryptBlob") : StartCall("t1", "decryptBlob", calls[i].out)

NextCipher == CipherCalls \/ KeySteps \/ FinishCall

SpecCipher == InitKey /\ [][NextCipher]_vars


\* ------------------------------------------------------------------- claims

DirtyIds(t) == {id \in DOMAIN t : t[id].dirty}

\* the rows of a table whose dirty flag a step has changed from true to false
Cleared(t, u) == {id \in DOMAIN t \cap DOMAIN u : t[id].dirty /\ ~u[id].dirty}

\* C1: under manual, periodic and online-event triggers at most one
\* fullSync pass runs at a time; the in-flight guard is set exactly while a
\* pass runs and syncInFlight is then the completion of that pass; a fullSync
\* call made while a pass is in flight starts nothing and returns the
\* completion of the running pass.
C1_OnePass ==
    /\ Cardinality(ActiveFull) <= 1
    /\ isSyncing <=> ActiveFull # {}
    /\ isSyncing => syncInFlight \in ActiveFull
    /\ ev.call = "coalesced" => /\ ev.promise \in ActiveFull
                                /\ ev.promise = syncInFlight
                                /\ Cardinality(Active) = 1

C1_Witness ==
    /\ ev.call = "coalesced"
    /\ \E k \in ActiveFull : proc[k].pc \in InPhase

\* C2: a step clears the dirty flag of a row only if it is the
\* markRecordsClean step of a syncOut whose upload contained the row and was
\* confirmed; that step clears the flag of exactly the uploaded ids and
\* changes nothing else; a step in which an upload reports an error changes
\* no local row.
C2_Step ==
    /\ \A id \in Cleared(notes, notes') :
          \E k \in Slots : proc[k].pc = "outNotesClean" /\ id \in proc[k].uploaded
    /\ \A id \in Cleared(folders, folders') :
          \E k \in Slots : proc[k].pc = "outFoldersClean" /\ id \in proc[k].uploaded
    /\ \A id \in Cleared(attachments, attachments') :
          \E k \in Slots : proc[k].pc = "outAttsClean" /\ id \in proc[k].uploaded
    /\ \A k \in Slots :
          /\ proc[k].pc = "outNotesClean" /\ proc'[k].pc # "outNotesClean"
                => /\ Cleared(notes, notes') = DirtyIds(notes) \cap proc[k].uploaded
                   /\ proc[k].uploaded = Ids(proc[k].payload)
                   /\ proc[k].uploaded \subseteq DOMAIN rNotes
          /\ proc[k].pc = "outFoldersClean" /\ proc'[k].pc # "outFoldersClean"
                => /\ Cleared(folders, folders') = DirtyIds(folders) \cap proc[k].uploaded
                   /\ proc[k].uploaded = Ids(proc[k].payload)
                   /\ proc[k].uploaded \subseteq DOMAIN rFolders
          /\ proc[k].pc = "outAttsClean" /\ proc'[k].pc # "outAttsClean"
                => /\ Cleared(attachments, attachments') =
                          DirtyIds(attachments) \cap proc[k].uploaded
                   /\ proc[k].uploaded = Ids(proc[k].payload)
                   /\ proc[k].uploaded \subseteq DOMAIN rAttachments
          /\ proc[k].pc \in {"outNotesUpload", "outFoldersUpload", "outAttsUpload"}
                /\ ev'.error # NoError
                => UNCHANGED localVars

C2_ClearAfterConfirmedUpload == [][C2_Step]_vars

\* a syncOut has cleaned the notes it uploaded and left dirty a note that
\* was created after its read
C2_Witness ==
    \E k \in Slots :
        /\ proc[k].pc = "outFoldersRead"
        /\ Len(proc[k].entries) > 0
        /\ \E id \in DOMAIN notes : ~notes[id].dirty
        /\ \E id \in DOMAIN notes : notes[id].dirty

\* C3: whenever no synchronisation is running, a local row is dirty if and
\* only if it carries a local mutation that no confirmed upload contained.
C3_DirtyIffUnconfirmed ==
    Active = {} =>
        /\ \A id \in DOMAIN notes : notes[id].dirty <=> id \in unsynced
        /\ \A id \in DOMAIN folders : folders[id].dirty <=> id \in unsynced
        /\ \A id \in DOMAIN attachments : attachments[id].dirty <=> id \in unsynced

\* C4: after a syncIn that completed without error, and during which neither
\* the local store nor the remote store was written by anyone else, every
\* note A held on both sides (T1 locally, T2 remotely) is the remote version
\* if T2 > T1 and the unchanged local version if T1 >= T2.
C4_LastWriteWins ==
    ev.end = "resolved" /\ ev.kind = "in" /\ ev.calm =>
        \A A \in DOMAIN ev.notes0 \cap DOMAIN rNotes :
            LET T1 == ev.notes0[A].updatedAt
                T2 == rNotes[A].updated_at
            IN /\ T2 > T1 => /\ A \in DOMAIN notes
                             /\ notes[A].body = rNotes[A].body
                             /\ notes[A].updatedAt = T2
                             /\ ~notes[A].dirty
               /\ T1 >= T2 => /\ A \in DOMAIN notes
                              /\ notes[A].body = ev.notes0[A].body
                              /\ notes[A].updatedAt = T1
                              /\ notes[A].dirty = ev.notes0[A].dirty

\* C5: a direct syncOut or syncIn call made without connectivity is
\* rejected with the offline error in the step of the call: no awaited
\* storage or remote adapter call is pending after it, and no local or remote
\* table has changed.
C5_Step ==
    ~IsOnline /\ Active = {} /\ (ev'.kind \in {"out", "in"} \/ Active' # {})
        => /\ ev'.end = "rejected"
           /\ ev'.error = OfflineMessage
           /\ Active' = {}
           /\ UNCHANGED <<localVars, remoteVars>>

C5_OfflineGate == [][C5_Step]_vars

C5_Witness ==
    /\ ev.end = "rejected" /\ ev.kind = "out" /\ ev.error = OfflineMessage
    /\ ~IsOnline
    /\ DirtyIds(notes) # {}
    /\ rLog = {}

\* C6: when every awaited call eventually answers, a state in which the
\* in-flight guard is set leads to a state in which the guard is released
\* and status.isSyncing is false.
C6_NeverStuck == isSyncing ~> (~isSyncing /\ ~currentStatus.isSyncing)

\* a pass that failed on a remote error has released the guard
C6_Witness ==
    /\ ev.kind = "full" /\ ev.end # "none" /\ ev.error = RemoteMessage
    /\ ~isSyncing /\ ~currentStatus.isSyncing

\* C7: the completion of a fullSync pass is never rejected; the message of
\* an error raised inside the pass is in status.lastError when the pass
\* settles.
C7_NeverRejects ==
    ev.kind = "full" /\ ev.end # "none" =>
        /\ ev.end = "resolved"
        /\ ev.error # NoError => currentStatus.lastError = ev.error

\* the offline error raised by syncIn, after the connection dropped during
\* syncOut, was caught
C7_Witness ==
    /\ ev.kind = "full" /\ ev.end = "resolved" /\ ev.error = OfflineMessage
    /\ currentStatus.lastError = OfflineMessage

\* C8: a fullSync pass is in syncIn only after its syncOut has returned
\* without error, and then holds nothing of syncOut that is unfinished.
C8_InAfterOut ==
    \A k \in ActiveFull :
        proc[k].pc \in InPhase => /\ proc[k].outOk
                                  /\ proc[k].payload = <<>>
                                  /\ proc[k].uploaded = {}

C8_Witness ==
    \E k \in ActiveFull :
        /\ proc[k].pc = "inDownload"
        /\ proc[k].outOk
        /\ "n1" \in DOMAIN rNotes

\* C9: once a syncOut has completed without error, and as long as no local
\* mutation has happened since that syncOut was called, no table holds a
\* dirty row, and a syncOut that runs holds no rows to upload and awaits no
\* upload, markRecordsClean or sync-log call.
C9_Idempotent ==
    cleanEpoch =>
        /\ DirtyIds(notes) = {} /\ DirtyIds(folders) = {} /\ DirtyIds(attachments) = {}
        /\ \A k \in Slots :
              /\ proc[k].payload = <<>>
              /\ proc[k].pc \in {"idle", "outNotesRead", "outFoldersRead", "outAttsRead"}
                                \cup InPhase

\* a second syncOut is past two of its reads after a first one uploaded a note
C9_Witness ==
    /\ cleanEpoch
    /\ \E k \in Slots : proc[k].kind = "out" /\ proc[k].pc = "outAttsRead"
    /\ rNotes # EmptyTable

\* C10: a merge step of syncIn writes a fetched remote row, with dirty=false,
\* exactly when no local row has its id or the remote timestamp is strictly
\* greater than the local one (updatedAt for notes, createdAt for folders and
\* attachments); every other fetched row leaves its local row unchanged.
C10_Step ==
    \A k \in Slots :
        /\ proc[k].pc = "inUpsertNotes" /\ proc'[k].pc # "inUpsertNotes" =>
              \A i \in DOMAIN proc[k].noteData :
                  LET r == proc[k].noteData[i]
                  IN IF r.id \notin DOMAIN notes
                     THEN /\ r.id \in DOMAIN notes'
                          /\ notes'[r.id] = [id |-> r.id, body |-> r.body,
                                             updatedAt |-> r.updated_at,
                                             attachments |-> <<>>, dirty |-> FALSE]
                     ELSE IF r.updated_at > notes[r.id].updatedAt
                     THEN notes'[r.id] = [id |-> r.id, body |-> r.body,
                                          updatedAt |-> r.updated_at,
                                          attachments |-> notes[r.id].attachments,
                                          dirty |-> FALSE]
                     ELSE notes'[r.id] = notes[r.id]
        /\ proc[k].pc = "inUpsertFolders" /\ proc'[k].pc # "inUpsertFolders" =>
              \A i \in DOMAIN proc[k].folderData :
                  LET r == proc[k].folderData[i]
                  IN IF r.id \notin DOMAIN folders \/ r.created_at > folders[r.id].createdAt
                     THEN /\ r.id \in DOMAIN folders'
                          /\ folders'[r.id] = [id |-> r.id, body |-> r.body,
                                               createdAt |-> r.created_at, dirty |-> FALSE]
                     ELSE folders'[r.id] = folders[r.id]
        /\ proc[k].pc = "inUpsertAtts" /\ proc'[k].pc # "inUpsertAtts" =>
              \A i \in DOMAIN proc[k].attachmentData :
                  LET r == proc[k].attachmentData[i]
                  IN IF r.id \notin DOMAIN attachments
                        \/ r.created_at > attachments[r.id].createdAt
                     THEN /\ r.id \in DOMAIN attachments'
                          /\ attachments'[r.id] = [id |-> r.id, noteId |-> r.note_id,
                                                   body |-> r.body,
                                                   createdAt |-> r.created_at,
                                                   dirty |-> FALSE]
                     ELSE attachments'[r.id] = attachments[r.id]

C10_MergeRule == [][C10_Step]_vars

\* a syncIn has written a newer remote note and discarded a remote folder
\* that is not newer than the local one
C10_Witness ==
    \E k \in Slots :
        /\ proc[k].pc \in {"inAttByNote", "inAttByCreated", "inUpsertAtts", "inLog"}
        /\ \E i \in DOMAIN proc[k].entries : proc[k].entries[i].item_type = "note"
        /\ \E f \in DOMAIN folders \cap DOMAIN rFolders :
              /\ rFolders[f].created_at <= folders[f].createdAt
              /\ folders[f].body # rFolders[f].body

\* the ids of the rows of an attachment table that belong to a note
OwnedBy(t, noteId) == {a \in DOMAIN t : t[a].noteId = noteId}

\* a note's list holds exactly the attachments of table t that belong to it,
\* each once
ListsExactly(note, t) ==
    /\ SeqRange(note.attachments) = OwnedBy(t, note.id)
    /\ Len(note.attachments) = Cardinality(OwnedBy(t, note.id))

\* C11: when the attachment merge of syncIn has written a fetched row, the
\* local note that owns the row lists exactly the ids of the local attachment
\* rows of that note, each once.
C11_Step ==
    \A k \in Slots :
        proc[k].pc = "inUpsertAtts" /\ proc'[k].pc # "inUpsertAtts" =>
            \A i \in DOMAIN proc[k].attachmentData :
                LET r == proc[k].attachmentData[i]
                IN (r.id \notin DOMAIN attachments
                        \/ r.created_at > attachments[r.id].createdAt)
                   /\ r.note_id \in DOMAIN notes'
                   => ListsExactly(notes'[r.note_id], attachments')

C12_ListsConsistent ==
    ev.end = "resolved" /\ ev.kind = "in" /\ ev.calm =>
        /\ \A n \in DOMAIN notes : ListsExactly(notes[n], attachments)
        /\ \A a \in DOMAIN attachments :
              Cardinality({n \in DOMAIN notes : a \in SeqRange(notes[n].attachments)}) = 1

\* the ids of the log entries of one entity type, as an array
EntryIds(entries, type) ==
    LET es == SelectSeq(entries, LAMBDA e : e.item_type = type)
    IN [i \in DOMAIN es |-> es[i].item_id]

NoRepeat(seq) == Cardinality(SeqRange(seq)) = Len(seq)

\* C13: the array of attachments a syncIn merges holds every id once, also
\* an id that both the note-scoped and the timestamp-scoped fetch returned,
\* and the log entries of the pass name every attachment id at most once.
C13_MergedOnce ==
    \A k \in Slots :
        /\ NoRepeat(IdSeq(proc[k].attachmentData))
        /\ proc[k].both # {} /\ proc[k].pc = "inUpsertAtts"
              => proc[k].both \subseteq Ids(proc[k].attachmentData)
        /\ proc[k].pc \in InPhase => NoRepeat(EntryIds(proc[k].entries, "attachment"))

\* an attachment that both fetches returned was written and logged
C13_Witness ==
    \E k \in Slots :
        /\ proc[k].pc = "inLog"
        /\ \E a \in proc[k].both :
              /\ a \in SeqRange(EntryIds(proc[k].entries, "attachment"))
              /\ a \in DOMAIN attachments

\* C14: no step lowers the updatedAt of a local note row that exists before
\* and after the step.
C14_Step ==
    \A id \in DOMAIN notes \cap DOMAIN notes' :
        notes'[id].updatedAt >= notes[id].updatedAt

C14_UpdatedAtMonotone == [][C14_Step]_vars

PassEnded == ev.kind = "full" /\ ev.end # "none"

\* C15 as stated: when a pass ends, the observable state is idle if both
\* halves completed cleanly, and error with lastError holding the failure's
\* message if an upload or download call failed.
C15_AsStated ==
    PassEnded =>
        /\ ev.raw = NoError => DeriveState(currentStatus) = "idle"
        /\ ev.raw = RemoteMessage => /\ DeriveState(currentStatus) = "error"
                                     /\ currentStatus.lastError = ev.raw

\* C15: when a pass ends the observable state is not syncing; it is offline
\* if status.offline was set during the pass; otherwise it is idle with no
\* lastError if both halves completed cleanly, and error if a half failed,
\* with lastError holding the message of the thrown value if that is an Error
\* and "Unknown sync error" if it is not.
C15_EndState ==
    PassEnded =>
        /\ DeriveState(currentStatus) # "syncing"
        /\ currentStatus.offline => DeriveState(currentStatus) = "offline"
        /\ ~currentStatus.offline /\ ev.raw = NoError
              => /\ DeriveState(currentStatus) = "idle"
                 /\ currentStatus.lastError = NoError
        /\ ~currentStatus.offline /\ ev.raw # NoError
              => /\ DeriveState(currentStatus) = "error"
                 /\ currentStatus.lastError = ev.error
                 /\ ev.error \in {ev.raw, UnknownMessage}

\* a pass has ended in error on a remote failure whose value is not an Error
C15_Witness ==
    /\ PassEnded
    /\ ev.raw = RemoteMessage /\ ev.error = UnknownMessage
    /\ DeriveState(currentStatus) = "error"

\* C16 as stated: whenever connectivity loss is detected (an offline event
\* handled, a periodic tick while offline, fullSync, syncOut or syncIn invoked
\* while offline) the observable state becomes offline, from any state
\* including syncing.
C16_AsStated ==
    (\/ ev.trigger = "event" /\ ev.heard = "false"
     \/ ev.trigger = "tick" /\ ev.call = "none"
     \/ ev.call = "offline"
     \/ ev.raw = OfflineMessage)
        => DeriveState(currentStatus) = "offline"

C16_Step ==
    /\ (\/ ev'.trigger = "event" /\ ev'.heard = "false"
        \/ ev'.trigger = "tick" /\ ev'.call = "none"
        \/ ev'.call = "offline"
        \/ ev'.raw = OfflineMessage)
          => /\ currentStatus'.offline
             /\ DeriveState(currentStatus') =
                   IF currentStatus'.isSyncing THEN "syncing" ELSE "offline"
    /\ ev'.trigger = "manual" /\ client /\ ~onLine /\ isSyncing
          => currentStatus' = currentStatus
    /\ DeriveState(currentStatus) = "offline" /\ ev'.trigger # "none" /\ IsOnline
          => DeriveState(currentStatus') = "syncing"

\* C16: whenever connectivity loss is detected (an offline event handled, a
\* periodic tick while offline, fullSync reaching its connectivity check
\* while offline, syncOut or syncIn invoked while offline) status.offline
\* becomes true; the observable state becomes offline if no pass is running
\* and stays syncing while one is; fullSync invoked while offline during a
\* running pass changes nothing; from offline, a trigger fired while online
\* moves the state to syncing.
C16_OfflineTransitions == [][C16_Step]_vars

\* an offline event was handled while a pass is running
C16_Witness ==
    /\ ev.trigger = "event" /\ ev.heard = "false"
    /\ currentStatus.offline
    /\ DeriveState(currentStatus) = "syncing"

C17_Step ==
    ev'.call # "none" /\ ~IsOnline =>
        /\ ev'.call \in {"notClient", "offline", "coalesced"}
        /\ proc' = proc
        /\ isSyncing' = isSyncing /\ syncInFlight' = syncInFlight
        /\ UNCHANGED <<localVars, remoteVars>>
        /\ currentStatus'.isSyncing = currentStatus.isSyncing
        /\ currentStatus'.lastRun = currentStatus.lastRun
        /\ currentStatus'.lastError = currentStatus.lastError

\* C17: fullSync invoked in a non-client environment or while offline starts
\* no pass, touches neither the local tables nor the remote tables, does not
\* set isSyncing, and leaves lastRun and lastError unchanged.
C17_NoOpOffline == [][C17_Step]_vars

\* fullSync was invoked offline after a failed pass and the error is still there
C17_Witness ==
    /\ ev.call = "offline" /\ client /\ ~onLine
    /\ currentStatus.lastError # NoError
    /\ ~currentStatus.isSyncing

C18_Step ==
    /\ \A l \in Listeners :
          ev'.delivered[l] = IF ev'.subscribed = l THEN <<currentStatus'>>
                             ELSE IF l \in statusListeners /\ l \in statusListeners'
                                  THEN ev'.notified
                                  ELSE <<>>
    /\ ev'.subscribed # "none" => ev'.subscribed \in statusListeners'
    /\ ev'.unsubscribed # "none" => ev'.unsubscribed \notin statusListeners'
    /\ currentStatus' = IF ev'.notified = <<>> THEN currentStatus
                        ELSE ev'.notified[Len(ev'.notified)]

\* C18: a listener is called with the current status in the step that
\* subscribes it; in every later step while it stays subscribed it is called
\* with exactly the status values updateStatus produced in that step, in
\* that order; once its unsubscribe handle was called it is called with
\* nothing; and the status only ever changes to the last value updateStatus
\* produced.
C18_Subscription == [][C18_Step]_vars

\* a subscribed listener got two status values in one step while the other,
\* unsubscribed, got none
C18_Witness ==
    /\ "l1" \in statusListeners /\ "l2" \notin statusListeners
    /\ Len(ev.delivered["l1"]) >= 2
    /\ ev.delivered["l1"] = ev.notified
    /\ ev.delivered["l2"] = <<>>

C19_Step ==
    ev'.trigger = "tick" =>
        /\ ev'.call # "none" <=> IsOnline
        /\ ~IsOnline =>
              /\ proc' = proc
              /\ isSyncing' = isSyncing /\ syncInFlight' = syncInFlight
              /\ UNCHANGED <<localVars, remoteVars>>
              /\ currentStatus' = [currentStatus EXCEPT !.offline = TRUE]

\* C19: a periodic tick invokes fullSync if and only if the client is online
\* at the tick; a tick while offline starts no pass and changes nothing but
\* status.offline, which it sets to true.
C19_TickGate == [][C19_Step]_vars

\* a tick found the client offline while a pass was running
C19_Witness ==
    /\ ev.trigger = "tick" /\ ev.call = "none"
    /\ ~onLine /\ ActiveFull # {}
    /\ currentStatus.offline /\ currentStatus.isSyncing

C20_Step ==
    ev'.trigger = "event" =>
        IF IsOnline
        THEN /\ Len(ev'.notified) >= 1
             /\ ev'.notified[1] = [currentStatus EXCEPT !.offline = FALSE]
             /\ \A l \in statusListeners : ev'.delivered[l] = ev'.notified
             /\ ev'.heard = "true"
             /\ ev'.call \in {"started", "coalesced"}
             /\ ~currentStatus'.offline /\ currentStatus'.isSyncing
        ELSE /\ ev'.heard = "false"
             /\ ev'.call = "none"
             /\ proc' = proc
             /\ currentStatus' = [currentStatus EXCEPT !.offline = TRUE]

\* C20: when the watchOnlineStatus handler finds the client online, it first
\* sets status.offline to false and notifies every status listener, calls
\* the registered listener with true, and invokes fullSync in the same run,
\* so that a pass is running when the handler returns; when it finds the
\* client offline it calls the listener with false, sets status.offline and
\* invokes no fullSync.
C20_OnlineTransition == [][C20_Step]_vars

\* the handler found the client online again after an offline failure and
\* started a pass, with a status listener subscribed
C20_Witness ==
    /\ ev.trigger = "event" /\ ev.heard = "true" /\ ev.call = "started"
    /\ "l1" \in statusListeners
    /\ Len(ev.notified) = 2
    /\ ev.notified[1].lastError = OfflineMessage /\ ~ev.notified[1].offline
    /\ ev.delivered["l1"] = ev.notified

\* the rows of the payload process k holds that are still in table t are dirty
PayloadStillDirty(k, t) ==
    \A id \in Ids(proc[k].payload) \cap DOMAIN t : t[id].dirty

C21_Step ==
    \A k \in Slots :
        /\ proc[k].kind = "out"
        /\ proc[k].pc \in {"outNotesUpload", "outFoldersUpload", "outAttsUpload"}
        /\ proc'[k].pc # proc[k].pc
        /\ ev'.reported = RemoteMessage
        => /\ ev'.end = "rejected" /\ ev'.error = ev'.reported
           /\ proc'[k] = IdleProc
           /\ UNCHANGED <<localVars, remoteVars>>
           /\ proc[k].pc = "outNotesUpload" => PayloadStillDirty(k, notes')
           /\ proc[k].pc = "outFoldersUpload" => PayloadStillDirty(k, folders')
           /\ proc[k].pc = "outAttsUpload" => PayloadStillDirty(k, attachments')

\* C21: when the upload call of notes, folders or attachments reports an
\* error, syncOut rejects with that error and ends there: no remote table and
\* no local row changes in that step, nothing of the invocation runs
\* afterwards, and the rows of the failed payload that are still in the local
\* table are dirty.
C21_UploadFailureFails == [][C21_Step]_vars

\* a syncOut was rejected by the folder upload after its notes had been
\* uploaded and cleaned
C21_Witness ==
    /\ ev.kind = "out" /\ ev.end = "rejected" /\ ev.raw = RemoteMessage
    /\ DirtyIds(folders) # {} /\ DirtyIds(folders) \cap DOMAIN rFolders = {}
    /\ notes # EmptyTable /\ DirtyIds(notes) = {}

\* the rows of table t2 that a step from t1 has put or replaced
Written(t1, t2) == {id \in DOMAIN t2 : id \notin DOMAIN t1 \/ t2[id] # t1[id]}

C22_Step ==
    \A k \in Slots :
        proc[k].kind = "in" =>
            /\ proc[k].pc = "inUpsertNotes" /\ proc'[k].pc # "inUpsertNotes"
                  => /\ SeqRange(EntryIds(proc'[k].entries, "note")) = Written(notes, notes')
                     /\ NoRepeat(proc'[k].entries)
            /\ proc[k].pc # "idle" /\ proc'[k].pc = "idle" /\ proc[k].entries # <<>>
                  => /\ proc[k].pc = "inLog"
                     /\ NoRepeat(proc[k].entries)

\* C22: a syncIn invocation builds one log entry for each note its merge
\* writes, and when the invocation ends, with whatever outcome, every entry
\* it has built has been passed to upsertSyncLogEntries, once.
C22_WrittenIsLogged == [][C22_Step]_vars

C23_Step ==
    \A k \in Slots :
        proc[k].kind = "out" =>
            /\ proc[k].pc = "outNotesClean" /\ proc'[k].pc # "outNotesClean"
                  => /\ SeqRange(EntryIds(proc'[k].entries, "note")) = proc[k].uploaded
                     /\ NoRepeat(proc'[k].entries)
            /\ proc[k].pc # "idle" /\ proc'[k].pc = "idle" /\ proc[k].entries # <<>>
                  => /\ proc[k].pc = "outLog"
                     /\ NoRepeat(proc[k].entries)

\* C23: a syncOut invocation builds one log entry for each note id it has
\* uploaded and marked clean, and when the invocation ends, with whatever
\* outcome, every entry it has built has been passed to upsertSyncLogEntries,
\* once.
C23_UploadedIsLogged == [][C23_Step]_vars

\* the local note id is clean and the remote holds exactly its content
NoteInSync(id) ==
    /\ ~notes[id].dirty
    /\ id \in DOMAIN rNotes /\ rNotes[id] = MapLocalNoteToRemote(notes[id])

\* C24: on a device that stays online, with the periodic trigger firing,
\* every call answering and uploads succeeding again and again, a dirty
\* note leads to a state in which the note is deleted, or is clean with its
\* content uploaded to the remote.
C24_EventualSync ==
    \A id \in NoteIds :
        (id \in DirtyIds(notes)) ~> (id \notin DOMAIN notes \/ NoteInSync(id))

\* the calls of tab t that have used the key
Served(t) == {i \in DOMAIN calls : calls[i].tab = t /\ calls[i].state # "waiting"}

\* C25: within one tab, however the encryptText, decryptText, encryptBlob and
\* decryptBlob calls interleave with the key lookup, the lookup is started
\* at most once, a key is generated at most once, and every call that has
\* used the key used the one handle keyPromise resolved to.
C25_OneLookup ==
    \A t \in Tabs :
        /\ tab[t].lookups <= 1
        /\ tab[t].generated <= 1
        /\ \A i \in Served(t) :
              /\ tab[t].keyPromise = "resolved"
              /\ calls[i].key = tab[t].key
              /\ calls[i].handle = 1

\* two calls issued in one tab before its key lookup had finished have both
\* returned
C25_Witness ==
    \E t \in Tabs : \E i, j \in Served(t) :
        /\ i # j
        /\ calls[i].early /\ calls[j].early
        /\ calls[i].op # calls[j].op

\* the payloads (IV and ciphertext) the encrypting calls have returned
Payloads ==
    {Base64ToUint8Array(calls[i].out) : i \in Done("encryptText")}
        \cup {calls[i].out : i \in Done("encryptBlob")}

\* C26: the installation has one key: every ciphertext any tab has produced
\* is decryptable with the key stored in localStorage.
C26_DecryptableWithStoredKey ==
    \A payload \in Payloads :
        keyStorage # 0 /\ DecryptBuffer(keyStorage, payload).ok

\* C27: round trip: what decryptText returns for a token is the string
\* encryptText was given, and what decryptBlob returns for a payload is the
\* content encryptBlob was given.
C27_RoundTrip ==
    \A i, j \in DOMAIN calls :
        /\ calls[i].state = "done" /\ calls[j].state # "waiting"
        /\ calls[j].arg = calls[i].out
        /\ <<calls[i].op, calls[j].op>> \in {<<"encryptText", "decryptText">>,
                                              <<"encryptBlob", "decryptBlob">>}
        => calls[j].state = "done" /\ calls[j].out = calls[i].arg

\* the encrypting calls that have returned
Sealed == Done("encryptText") \cup Done("encryptBlob")
PayloadOf(i) ==
    IF calls[i].op = "encryptText" THEN Base64ToUint8Array(calls[i].out) ELSE calls[i].out

C29_Step ==
    ev'.nested # -1
    => /\ ev'.call = "started"
       /\ Cardinality({k \in Slots : proc'[k].kind = "full"}) = 1
       /\ ev'.nested = ev'.promise
       /\ ev'.nested = syncInFlight' /\ syncInFlight' # 0
C29_ReentrantJoinsNewPass == [][C29_Step]_vars

PassRuns(p) == \E k \in Slots : p[k].kind = "full"

\* C30: triggers are coalesced, not queued: a fullSync call that finds a pass
\* in flight starts nothing and leaves nothing behind, the step that
\* completes a pass starts no pass however many triggers arrived during it,
\* and a pass starts only in a fullSync call that finds the guard released.
C30_Step ==
    /\ ev'.call = "coalesced"
          => /\ isSyncing /\ isSyncing'
             /\ syncInFlight' = syncInFlight
             /\ \A k \in Slots : /\ proc'[k].kind = proc[k].kind
                                  /\ proc'[k].pc = proc[k].pc
    /\ ev'.end # "none" /\ ev'.kind = "full"
          => ~isSyncing' /\ ~PassRuns(proc') /\ syncInFlight' = 0
    /\ \A k \in Slots :
          proc[k].kind # "full" /\ proc'[k].kind = "full"
          => ~isSyncing /\ ev'.call = "started" /\ ev'.trigger # "none"
C30_Coalesced == [][C30_Step]_vars

\* a pass that triggers arrived during has completed, and no pass runs
C30_Witness ==
    /\ ev.end # "none" /\ ev.kind = "full" /\ ev.joined
    /\ ~isSyncing /\ ~PassRuns(proc)

\* C31: when the note download or the folder download of a syncIn reports an
\* error, syncIn rejects with it (the note error first), no local table is
\* written, no log entry is upserted, and the invocation has merged nothing;
\* a folder error alone keeps the downloaded notes from being merged.
C31_Step ==
    \A k \in Slots :
        /\ proc[k].kind = "in" /\ proc[k].pc = "inDownload"
        /\ ev'.noteReported = RemoteMessage \/ ev'.reported = RemoteMessage
        => /\ proc'[k].pc = "idle"
           /\ ev'.end = "rejected"
           /\ ev'.error = RemoteMessage
           /\ UNCHANGED localVars
           /\ rLog' = rLog
           /\ proc[k].entries = <<>>
C31_DownloadFailureWritesNothing == [][C31_Step]_vars

\* a syncIn has just failed on the folder download alone while the remote
\* held a note the local store lacks
C31_Witness ==
    /\ ev.kind = "in" /\ ev.end = "rejected"
    /\ ev.noteReported = NoThrow.message /\ ev.reported = RemoteMessage
    /\ \E id \in DOMAIN rNotes : id \notin DOMAIN notes

\* the step of syncIn process k in which an attachment download that
\* reported an error is looked at
AttachmentFetchFailed(k) ==
    /\ proc[k].kind = "in" /\ proc'[k].pc # proc[k].pc
    /\ \/ /\ proc[k].pc = "inAttByCreated"
          /\ ev'.reported = RemoteMessage \/ proc[k].byNoteError # NoThrow
       \/ /\ proc[k].pc = "inAttByNote"
          /\ ev'.reported = RemoteMessage
          /\ proc[k].latestAttachment = 0

\* C32: when an attachment download of a syncIn reports an error, syncIn
\* rejects with it; the pass has written no attachment row and upserts no
\* log entry, and the note and folder rows it merged before (written with
\* dirty = false) are left as they are.
C32_Step ==
    \A k \in Slots :
        /\ AttachmentFetchFailed(k)
              => /\ proc'[k].pc = "idle"
                 /\ ev'.end = "rejected" /\ ev'.error = RemoteMessage
                 /\ UNCHANGED localVars
                 /\ rLog' = rLog
                 /\ EntryIds(proc[k].entries, "attachment") = <<>>
        /\ proc[k].kind = "in" /\ proc[k].pc \in {"inUpsertNotes", "inUpsertFolders"}
              /\ proc'[k].pc # proc[k].pc
              => /\ \A id \in Written(notes, notes') : ~notes'[id].dirty
                 /\ \A id \in Written(folders, folders') : ~folders'[id].dirty
                 /\ attachments' = attachments
C32_AttachmentFailureKeepsMerges == [][C32_Step]_vars

\* a syncIn nobody interfered with has merged a note and then failed on an
\* attachment download: the merged row is in the local store
C32_Witness ==
    /\ ev.kind = "in" /\ ev.end = "rejected" /\ ev.calm
    /\ ev.noteReported = NoError /\ ev.raw = RemoteMessage
    /\ \E id \in DOMAIN notes :
          /\ id \notin DOMAIN ev.notes0 \/ notes[id] # ev.notes0[id]
          /\ ~notes[id].dirty

\* C33: a note upload of syncOut never replaces a remote note row by a
\* version whose updatedAt is smaller than the updated_at the remote row
\* holds when the upload arrives.
C33_Step ==
    \A k \in Slots :
        proc[k].pc = "outNotesUpload" /\ proc'[k].pc # "outNotesUpload"
        => \A id \in DOMAIN rNotes :
              rNotes'[id] # rNotes[id] => rNotes'[id].updated_at >= rNotes[id].updated_at
C33_NewestWinsOnUpload == [][C33_Step]_vars

\* C34: convergence: when no local mutation has happened and a fullSync pass
\* has completed without error after the other clients' last upload, the
\* local store holds every note the remote holds, in a version that is not
\* older than the remote one.
C34_Converged ==
    /\ ev.kind = "full" /\ ev.end = "resolved" /\ ev.error = NoError
    /\ ev.calm /\ edits = 0
    => \A id \in DOMAIN rNotes :
          /\ id \in DOMAIN notes
          /\ notes[id].updatedAt >= rNotes[id].updated_at

\* C35: a note the user has deleted stays deleted: a syncOut that starts
\* afterwards reads and uploads only rows the local store holds, and no step
\* puts the note row back into the local store.
C35_Step ==
    /\ \A id \in NoteIds : id \notin DOMAIN notes => id \notin DOMAIN notes'
    /\ \A k \in Slots :
          proc[k].pc = "outNotesRead" /\ proc'[k].pc = "outNotesUpload"
          => Ids(proc'[k].payload) \subseteq DOMAIN notes
C35_DeletedStaysDeleted == [][C35_Step]_vars

\* C36: after a syncIn that completed without error while nobody else wrote,
\* on a client whose user has changed nothing, every remote attachment that
\* is newer than all the attachments the client holds is in the local store.
C36_NoAttachmentMissed ==
    /\ ev.kind = "in" /\ ev.end = "resolved" /\ ev.calm /\ edits = 0
    => \A a \in DOMAIN rAttachments :
           \/ a \in DOMAIN attachments
           \/ \E b \in DOMAIN attachments :
                  attachments[b].createdAt >= rAttachments[a].created_at

\* the sync log call of process k answers with an error in this step
LogFailed(k) ==
    /\ proc[k].pc \in {"outLog", "inLog"}
    /\ proc'[k].pc # proc[k].pc
    /\ ev'.reported = RemoteMessage

C37_Step ==
    \A k \in Slots :
        LogFailed(k)
        => /\ ev'.raw # RemoteMessage /\ ev'.error # RemoteMessage
           /\ UNCHANGED localVars
           /\ currentStatus'.lastError = currentStatus.lastError
              \/ ev'.raw = OfflineMessage
           /\ proc[k].pc = "outLog"
              => \/ ev'.raw = OfflineMessage
                 \/ IF proc[k].kind = "full"
                    THEN proc'[k].pc = "inLatestNote" /\ proc'[k].outOk
                    ELSE ev'.end = "resolved" /\ ev'.error = NoError
           /\ proc[k].pc = "inLog"
              => /\ ev'.end = "resolved" /\ ev'.error = NoError
                 /\ proc[k].kind = "full" => currentStatus'.lastRun = now

\* C37: when upsertSyncLogEntries reports an error at the end of syncOut or
\* syncIn, nothing is thrown for it: the step completes (a direct call
\* resolves, a fullSync pass goes on from syncOut to syncIn, and after syncIn
\* records lastRun and no lastError), and no local row changes, so the dirty
\* flags cleared and the rows merged before stay as they are.
C37_LogErrorIgnored == [][C37_Step]_vars

C37_Witness ==
    /\ ev.kind = "full" /\ ev.end = "resolved" /\ ev.error = NoError
    /\ ev.reported = RemoteMessage
    /\ currentStatus.lastRun = now /\ currentStatus.lastError = NoError
    /\ \E id \in DOMAIN notes : ~notes[id].dirty

\* C38: after a fullSync pass that ended without error while nobody wrote, on
\* a client whose user has changed nothing, a folder the client holds with the
\* createdAt of the remote row (a rename leaves createdAt as it is) has the
\* name of the remote row.
C38_RenameAdopted ==
    /\ ev.kind = "full" /\ ev.end = "resolved" /\ ev.error = NoError
    /\ ev.calm /\ edits = 0
    => \A id \in DOMAIN folders \cap DOMAIN rFolders :
           rFolders[id].created_at = folders[id].createdAt
           => folders[id].body = rFolders[id].body

\* a fullSync pass whose syncOut had completed ends its syncIn in this step
PassCompletes ==
    \E k \in Slots :
        /\ proc[k].kind = "full" /\ proc[k].outOk /\ proc[k].pc \in InPhase
        /\ proc'[k].pc = "idle"
        /\ ev'.kind = "full" /\ ev'.end = "resolved"
        /\ ev'.error = NoError /\ ev'.raw = NoError

C39_Step ==
    /\ currentStatus'.lastRun # currentStatus.lastRun => PassCompletes
    /\ ev'.kind = "full" /\ ev'.raw # NoError
       => currentStatus'.lastRun = currentStatus.lastRun
    /\ ev'.call \in {"notClient", "offline", "coalesced"}
       => currentStatus'.lastRun = currentStatus.lastRun

\* C39: status.lastRun changes only in the step that ends a fullSync pass
\* whose syncOut and syncIn both completed without a thrown error; the step
\* that ends a pass with a thrown error, and a fullSync call that is
\* coalesced or refused (offline, non-client), leave lastRun as it was.
C39_LastRunOnlyAfterCleanPass == [][C39_Step]_vars

\* a pass has just ended without error and stamped lastRun with the clock
C39_Witness ==
    /\ ev.kind = "full" /\ ev.end = "resolved" /\ ev.error = NoError
    /\ Len(ev.notified) = 2
    /\ ev.notified[1].lastRun = now /\ ev.notified[1].isSyncing
    /\ currentStatus.lastRun = now /\ ~currentStatus.isSyncing

====
